---------------------------- MODULE Spec2Model ----------------------------
(***************************************************************************)
(* Model of db-client-neo4j (src/src/db-client.ts): the context / session  *)
(* / transaction / bookmark orchestration of the Neo4j client.             *)
(*                                                                         *)
(* A context (DbContextType) is a record; sessions, managed transactions   *)
(* and drivers are the objects the neo4j driver hands out, kept in         *)
(* sequences and referred to by index.  Every async function is a frame on *)
(* the call stack of the task that runs it, and every await is a step      *)
(* boundary: the backend settles an awaited operation with success or      *)
(* failure, chosen nondeterministically.                                   *)
(***************************************************************************)
EXTENDS Integers, Sequences, FiniteSets, TLC

(***************************************************************************)
(* Bounds of the model.                                                    *)
(***************************************************************************)
\* operations (executeCypher, stream, close, derive, forget) started in a run
MaxOps == 3
\* contexts that exist at once (created by newDbContext and by streams)
MaxCtx == 2
\* composable descriptors nested inside one another
MaxDepth == 2
\* cooperatively scheduled tasks
MaxTasks == 2
\* records the backend delivers to one stream
MaxRecords == 2
\* operations started in a run of the bookmark chain of one context
MaxChain == 4
\* calls started in a run of concurrent calls on one Idle context
MaxOpen == 2
\* operations started in a run of the bookmark chain with forgets
MaxForget == 5

Tasks == 1..MaxTasks

(***************************************************************************)
(* Values.  null and undefined are one value, Nullish; a key that an       *)
(* object does not have is Absent (a spread copies only the keys present). *)
(* Bookmark sets are numbers: NoMarks is the empty array, k > 0 a token.   *)
(***************************************************************************)
Null == 0
Nullish == -1
Absent == -2
NoMarks == 0

\* an optional boolean of DbParmsType: "U" not given, "F" false, "T" true
Flags == {"U", "F", "T"}
Truthy(v) == v = "T"

\* dbParms: the fields of DbParmsType the context layer reads
NoParms ==
  [dbUrl |-> "U", dbName |-> "U", allowwrite |-> "U", readonly |-> "U", ignoremarks |-> "U"]

\* dbSessionParms: target database, staged bookmarks, defaultAccessMode
NoSessionParms == [database |-> "ABSENT", bookmarks |-> Absent, mode |-> "ABSENT"]

\* { ...a, ...b } on dbParms: the keys b gives win
SpreadParms(a, b) == [k \in DOMAIN a |-> IF b[k] # "U" THEN b[k] ELSE a[k]]

\* { ...a, ...b } on dbSessionParms
SpreadSession(a, b) ==
  [database  |-> IF b.database # "ABSENT" THEN b.database ELSE a.database,
   bookmarks |-> IF b.bookmarks # Absent THEN b.bookmarks ELSE a.bookmarks,
   mode      |-> IF b.mode # "ABSENT" THEN b.mode ELSE a.mode]

\* a ?? b
Coalesce(a, b) == IF a # Nullish THEN a ELSE b

(***************************************************************************)
(* DbContextOrParmsType: what newDbContext takes as base and as overrides. *)
(* top are the DbParmsType keys at the top level of the object, dbParms    *)
(* the nested dbParms object when hasParms.                                *)
(***************************************************************************)
NoObject ==
  [hasParms |-> FALSE, dbParms |-> NoParms, top |-> NoParms, sp |-> NoSessionParms,
   dbDriver |-> Null, dbMarks |-> Nullish]

\* a plain configuration object
PlainParms(p) == [NoObject EXCEPT !.top = p]

\* a context passed where a DbContextOrParmsType is expected
AsObject(db) ==
  [hasParms |-> TRUE, dbParms |-> db.dbParms, top |-> NoParms, sp |-> db.sp,
   dbDriver |-> db.dbDriver, dbMarks |-> db.dbMarks]

\* setDbSessionParmsDefaultAccessMode
setDbSessionParmsDefaultAccessMode(db) ==
  IF Truthy(db.dbParms.allowwrite) THEN [db EXCEPT !.sp.mode = "WRITE"]
  ELSE IF Truthy(db.dbParms.readonly) THEN [db EXCEPT !.sp.mode = "READ"]
  ELSE db

\* mutant: newDbDriver accepts any dbUrl
DriverUrlAny(dbParms) == TRUE

\* newDbDriver: throws when dbUrl is missing or empty
DriverUrlOk(dbParms) == dbParms.dbUrl \notin {"U", ""}

\* newDbContext(base, ov) with nd the index a newly created driver gets:
\* [ok, db, made] - ok FALSE when newDbDriver throws, made TRUE when a
\* driver was created
newDbContext(base, ov, nd) ==
  LET dbParmsOverrides == IF ov.hasParms THEN ov.dbParms ELSE ov.top
      dbParms == SpreadParms(IF base.hasParms THEN base.dbParms ELSE base.top,
                             dbParmsOverrides)
      sp0 == [NoSessionParms EXCEPT !.database = dbParms.dbName]
      drv == IF ov.dbDriver # Null THEN ov.dbDriver ELSE base.dbDriver
      db == [dbParms   |-> dbParms,
             sp        |-> SpreadSession(SpreadSession(sp0, base.sp), ov.sp),
             dbDriver  |-> IF drv = Null THEN nd ELSE drv,
             dbSession |-> Null,
             dbTxn     |-> Null,
             dbMarks   |-> Coalesce(ov.dbMarks, base.dbMarks),
             dbSummary |-> Null,
             via       |-> "new",
             parent    |-> Null,
             owns      |-> drv = Null,
             ncap      |-> 0,
             nfg       |-> 0,
             inh       |-> Absent]
  IN  [ok   |-> drv # Null \/ DriverUrlOk(dbParms),
       made |-> drv = Null,
       db   |-> setDbSessionParmsDefaultAccessMode(db)]

\* newReadonlyDbContext: newDbContext(db, { ...overrides, allowwrite: false })
newReadonlyDbContext(base, ov, nd) ==
  LET r == newDbContext(base, [ov EXCEPT !.top.allowwrite = "F"], nd)
  IN  [r EXCEPT !.db.via = "readonly"]

\* newWritableDbContext: newDbContext(db, { ...overrides, allowwrite: true })
newWritableDbContext(base, ov, nd) ==
  LET r == newDbContext(base, [ov EXCEPT !.top.allowwrite = "T"], nd)
  IN  [r EXCEPT !.db.via = "writable"]


(***************************************************************************)
(* State.                                                                  *)
(***************************************************************************)
VARIABLES
  ctx,       \* the contexts created so far, by index
  drivers,   \* the drivers created so far: "open" or "closed"
  sessions,  \* the sessions opened so far
  txns,      \* the managed transactions begun (executeRead / executeWrite calls)
  stack,     \* per task: the frames of the async functions it is inside
  ret,       \* per task: how the call that returned last ended
  ops,       \* operations started so far
  lim,       \* operations the run may start
  bm,        \* the last bookmark token the backend issued
  calc       \* the values a helper function is applied to and what it returned

vars == <<ctx, drivers, sessions, txns, stack, ret, ops, lim, bm, calc>>

\* no helper function under study
NoCalc == [kind |-> "none"]

\* Beside the fields of DbContextType a context records its history: via is
\* the constructor that made it, parent the context it was derived from,
\* owns says that newDbContext created its driver for it, ncap and nfg count
\* the dbHandleLastBookmarks and dbForgetBookmarks calls on it, and inh is the bookmark set of the unit of work its parent had
\* just completed when it was derived (Absent when there was none).

\* a frame of a task's stack.  kind "code" is caller code (the task's own
\* program at the bottom, the body of a composable descriptor above);
\* "exec" is executeCypher with the executeCypherRawResults it awaits.
\* sess0, txn0, cap0 are db.dbSession, db.dbTxn and the captures on db at entry.
\* For a stream, host is the context that hosts it, arr the records the
\* driver has delivered and obs the callbacks the observer has received.
\* For an executor call, stmt is the kind of its literal statement, res is
\* "conflict" when the server refused the statement because of the
\* transaction it was sent in, and rep says that the call repeats the call
\* that returned just before it.
\* For dbCloseSession and dbClose, onSess is the session and drv the driver
\* whose close() was called.
NoFrame ==
  [kind |-> "none", db |-> Null, isFn |-> FALSE, id |-> 0, pc |-> "none", path |-> "none",
   txn |-> Null, onSess |-> Null, onTxn |-> Null, sess0 |-> Null, txn0 |-> Null,
   cap0 |-> 0, res |-> "none", host |-> Null, arr |-> 0, obs |-> <<>>, drv |-> Null,
   stmt |-> "none", rep |-> FALSE]

CodeFrame(c) == [NoFrame EXCEPT !.kind = "code", !.db = c]

\* the record of a return: st "ok" or "err", the frame that returned, and
\* db.dbTxn, db.dbSession, db.dbSummary and the captures on db at that moment
NoRet ==
  [st |-> "none", fr |-> NoFrame, dbTxn |-> Null, dbSession |-> Null, dbSummary |-> Null,
   ncap |-> 0]

Returned(st, fr, cx) ==
  [st |-> st, fr |-> fr, dbTxn |-> cx[fr.db].dbTxn, dbSession |-> cx[fr.db].dbSession,
   dbSummary |-> cx[fr.db].dbSummary, ncap |-> cx[fr.db].ncap]

Top(t) == stack[t][Len(stack[t])]
Pop(st) == SubSeq(st, 1, Len(st) - 1)
SetTop(st, f) == [st EXCEPT ![Len(st)] = f]

\* the composable bodies task t is inside
Depth(t) == Cardinality({i \in 1..Len(stack[t]) : stack[t][i].kind = "code"}) - 1

\* contexts caller code holds (a stream's sibling is private to the stream)
Visible == {i \in 1..Len(ctx) : ctx[i].via # "sibling"}

\* task t is running caller code that may start an operation
CanCall(t) ==
  /\ stack[t] # <<>>
  /\ Top(t).kind = "code"
  /\ ret[t].st # "err"
  /\ ops < lim

\* mutant: a call that does not see the session the context holds
SessionMissingAlways(db) == TRUE

\* lines 218 and 270: if (db.dbSession == null), the test that is followed
\* at once by the assignment of a new session
SessionMissing(db) == db.dbSession = Null

\* the dbForgetBookmarks calls made so far on the context a session is
\* opened for (none on a stream sibling that is being created)
Forgotten(owner) == IF owner \in 1..Len(ctx) THEN ctx[owner].nfg ELSE 0

\* mutant: a session created without the staged bookmarks
NewSessionNoMarks(owner, sp) ==
  [ctx |-> owner, st |-> "open", fin |-> FALSE, init |-> Absent, mode |-> sp.mode,
   marks |-> NoMarks, gen |-> Forgotten(owner)]

\* driver.session(sessionParms): lastBookmarks() answers the bookmarks the
\* session was created with until a unit of work completes on it.  st is
\* "closed" once close() has been called, fin says that the close has
\* completed, gen how often the owner's bookmarks had been forgotten before
NewSession(owner, sp) ==
  [ctx |-> owner, st |-> "open", fin |-> FALSE, init |-> sp.bookmarks, mode |-> sp.mode,
   marks |-> IF sp.bookmarks \in {Absent, Nullish} THEN NoMarks ELSE sp.bookmarks,
   gen |-> Forgotten(owner)]

\* the backend can complete work on session s
SessionUsable(s) ==
  /\ sessions[s].st = "open"
  /\ ctx[sessions[s].ctx].dbDriver # Null => drivers[ctx[sessions[s].ctx].dbDriver] = "open"

\* mutant: the capture stages the bookmarks whatever ignoremarks says
dbHandleLastBookmarksAlwaysStage(db, ss) ==
  LET marks == IF db.dbSession = Null THEN Nullish ELSE ss[db.dbSession].marks
  IN  [db EXCEPT !.dbMarks = marks, !.sp.bookmarks = marks, !.ncap = @ + 1]

\* mutant: a capture that merges the session's bookmarks into the ones held
dbHandleLastBookmarksMerge(db, ss) ==
  LET last == IF db.dbSession = Null THEN Nullish ELSE ss[db.dbSession].marks
      marks == IF db.dbMarks > last THEN db.dbMarks ELSE last
  IN  [db EXCEPT !.dbMarks = marks,
                 !.sp.bookmarks = IF Truthy(db.dbParms.ignoremarks) THEN Nullish ELSE marks,
                 !.ncap = @ + 1]

\* dbHandleLastBookmarks on context record db, ss the session table
dbHandleLastBookmarks(db, ss) ==
  LET marks == IF db.dbSession = Null THEN Nullish ELSE ss[db.dbSession].marks
  IN  [db EXCEPT !.dbMarks = marks,
                 !.sp.bookmarks = IF Truthy(db.dbParms.ignoremarks) THEN Nullish ELSE marks,
                 !.ncap = @ + 1]

\* mutant: the staged bookmarks are kept
dbForgetBookmarksMarksOnly(db) == [db EXCEPT !.dbMarks = Nullish, !.nfg = @ + 1]

\* dbForgetBookmarks
dbForgetBookmarks(db) ==
  [db EXCEPT !.dbMarks = Nullish, !.sp.bookmarks = Nullish, !.nfg = @ + 1]

\* mutant: a literal never takes the single-shot path
UseSingleShotNever(fresh, isFn) == FALSE

\* executeCypherRawResults, lines 218-220: session.run only on a session this
\* call has just opened, and only for a literal descriptor
UseSingleShot(fresh, isFn) == fresh /\ ~isFn

\* mutant: always begin a transaction
BeginsTxnAlways(db) == TRUE

\* executeCypherRawResults, line 231: a managed transaction is begun when
\* the context holds no transaction handle
BeginsTxn(db) == db.dbTxn = Null

\* mutant: the managed path always uses executeWrite
TxnModeWrite(db) == "WRITE"

\* executeCypherRawResults, line 234: executeRead or executeWrite
TxnMode(db) == IF db.sp.mode = "READ" THEN "READ" ELSE "WRITE"

\* mutant: the finally block without the clearing of dbTxn
ManagedExitKeepTxn(db, ss) == dbHandleLastBookmarks(db, ss)

\* mutant: the finally block without the capture
ManagedExitNoCapture(db, ss) == [db EXCEPT !.dbTxn = Null]

\* executeCypherRawResults, lines 245-248: the finally block
ManagedExit(db, ss) == [dbHandleLastBookmarks(db, ss) EXCEPT !.dbTxn = Null]

\* dbResultsAsObjects, lines 188-194: a raw result sets db.dbSummary
WithSummary(db, id) == [db EXCEPT !.dbSummary = id]


(***************************************************************************)
(* executeCypher / executeCypherRawResults.                                *)
(***************************************************************************)
\* the kinds of literal statement: "auto" is a statement that commits on its
\* own (call { ... } in transactions), which the server runs only in an
\* implicit transaction, that is on session.run
Statements == {"plain", "auto"}

\* a literal call on context c repeats the call that has just returned to
\* task t: the same statement on the same context, both outside any
\* transaction body, the earlier one successful
Repeats(t, c, isFn, stmt) ==
  /\ ~isFn /\ ctx[c].dbTxn = Null
  /\ ret[t].st = "ok" /\ ret[t].fr.kind = "exec" /\ ~ret[t].fr.isFn
  /\ ret[t].fr.db = c /\ ret[t].fr.stmt = stmt /\ ret[t].fr.txn0 = Null

\* executeCypher(db, dbQuery) called by caller code of task t on context c,
\* dbQuery a composable descriptor (isFn) or a literal of kind stmt:
\* everything up to the first await
ExecuteCypher(t, c, isFn, stmt) ==
  /\ UNCHANGED <<lim, calc>>
  /\ CanCall(t)
  /\ c \in Visible
  /\ isFn => Depth(t) < MaxDepth
  /\ ops' = ops + 1
  /\ LET db == ctx[c]
         fresh == SessionMissing(db)
         fr0 == [NoFrame EXCEPT !.kind = "exec", !.db = c, !.isFn = isFn, !.id = ops + 1,
                                !.sess0 = db.dbSession, !.txn0 = db.dbTxn, !.cap0 = db.ncap,
                                !.stmt = IF isFn THEN "none" ELSE stmt,
                                !.rep = Repeats(t, c, isFn, stmt)]
     IN  IF fresh /\ db.dbDriver = Null
         THEN \* db.dbDriver.session(...) on a null driver: TypeError
              /\ ret' = [ret EXCEPT ![t] = Returned("err", fr0, ctx)]
              /\ UNCHANGED <<ctx, drivers, sessions, txns, stack, bm>>
         ELSE LET s == IF fresh THEN Len(sessions) + 1 ELSE db.dbSession
                  db1 == [db EXCEPT !.dbSession = s]
                  k == Len(txns) + 1
              IN  /\ sessions' = IF fresh THEN Append(sessions, NewSession(c, db.sp))
                                 ELSE sessions
                  /\ ctx' = [ctx EXCEPT ![c] = db1]
                  /\ ret' = [ret EXCEPT ![t] = NoRet]
                  /\ UNCHANGED <<drivers, bm>>
                  /\ IF UseSingleShot(fresh, isFn)
                     THEN \* await db.dbSession.run(...)
                          /\ stack' = [stack EXCEPT ![t] = Append(@,
                                 [fr0 EXCEPT !.pc = "run", !.path = "single", !.onSess = s])]
                          /\ UNCHANGED txns
                     ELSE IF BeginsTxn(db1)
                     THEN \* await db.dbSession.executeRead / executeWrite(...)
                          /\ txns' = Append(txns, [ctx |-> c, sess |-> s, mode |-> TxnMode(db1),
                                                   st |-> "active", task |-> t, id |-> ops + 1])
                          /\ stack' = [stack EXCEPT ![t] = Append(@,
                                 [fr0 EXCEPT !.pc = "begin", !.path = "managed", !.txn = k])]
                     ELSE \* await dbQueryFn(db, parameters) within the existing transaction
                          /\ UNCHANGED txns
                          /\ stack' = [stack EXCEPT ![t] =
                                 IF isFn
                                 THEN Append(Append(@, [fr0 EXCEPT !.pc = "nested",
                                                                   !.path = "nested"]),
                                             CodeFrame(c))
                                 ELSE Append(@, [fr0 EXCEPT !.pc = "nested", !.path = "nested",
                                                            !.onTxn = db1.dbTxn])]

\* the single-shot session.run settles: on success the bookmarks are
\* captured and the raw result returned, on failure the error is thrown
RunDone(t, ok) ==
  /\ UNCHANGED <<lim, calc>>
  /\ stack[t] # <<>>
  /\ Top(t).kind = "exec" /\ Top(t).pc = "run"
  /\ ok => SessionUsable(Top(t).onSess)
  /\ LET f == Top(t)
         ss == [sessions EXCEPT ![f.onSess].marks = bm + 1]
         cx == [ctx EXCEPT ![f.db] = WithSummary(dbHandleLastBookmarks(@, ss), f.id)]
     IN  IF ok
         THEN /\ sessions' = ss
              /\ bm' = bm + 1
              /\ ctx' = cx
              /\ ret' = [ret EXCEPT ![t] = Returned("ok", f, cx)]
         ELSE /\ ret' = [ret EXCEPT ![t] = Returned("err", f, ctx)]
              /\ UNCHANGED <<sessions, bm, ctx>>
  /\ stack' = [stack EXCEPT ![t] = Pop(@)]
  /\ UNCHANGED <<drivers, txns, ops>>

\* the driver begins the managed transaction and invokes the callback, which
\* stores the handle in db.dbTxn and calls dbQueryFn; or the begin fails and
\* executeRead / executeWrite rejects.  The driver refuses to begin on a
\* session that has a transaction open.
TxnBegin(t, ok) ==
  /\ UNCHANGED <<lim, calc>>
  /\ stack[t] # <<>>
  /\ Top(t).kind = "exec" /\ Top(t).pc = "begin"
  /\ LET f == Top(t)
         s == txns[f.txn].sess
     IN  /\ ok => /\ SessionUsable(s)
                  /\ \A k \in 1..Len(txns) :
                       (txns[k].sess = s /\ txns[k].st = "active") => k = f.txn
         /\ IF ok
            THEN /\ ctx' = [ctx EXCEPT ![f.db].dbTxn = f.txn]
                 /\ stack' = [stack EXCEPT ![t] =
                        IF f.isFn
                        THEN Append(SetTop(@, [f EXCEPT !.pc = "work"]), CodeFrame(f.db))
                        ELSE SetTop(@, [f EXCEPT !.pc = "work", !.onTxn = f.txn])]
                 /\ UNCHANGED txns
            ELSE /\ txns' = [txns EXCEPT ![f.txn].st = "failed"]
                 /\ stack' = [stack EXCEPT ![t] = SetTop(@, [f EXCEPT !.pc = "commit",
                                                                      !.res = "err"])]
                 /\ UNCHANGED ctx
  /\ UNCHANGED <<drivers, sessions, ret, ops, bm>>

\* the backend can complete a statement sent on transaction handle k
TxnUsable(k) == txns[k].st = "active" /\ SessionUsable(txns[k].sess)

\* db.dbTxn.run of a literal descriptor settles: inside the managed wrapper
\* the work is done, in an enclosing transaction the call returns
TxnRunDone(t, ok) ==
  /\ UNCHANGED <<lim, calc>>
  /\ stack[t] # <<>>
  /\ Top(t).kind = "exec" /\ Top(t).pc \in {"work", "nested"} /\ ~Top(t).isFn
  /\ ok => (TxnUsable(Top(t).onTxn) /\ Top(t).stmt # "auto")
  /\ LET f == Top(t)
         st == IF ok THEN "ok" ELSE "err"
         rs == IF ~ok /\ f.stmt = "auto" /\ TxnUsable(f.onTxn) THEN "conflict" ELSE st
         cx == IF ok THEN [ctx EXCEPT ![f.db] = WithSummary(@, f.id)] ELSE ctx
     IN  IF f.pc = "work"
         THEN /\ stack' = [stack EXCEPT ![t] = SetTop(@, [f EXCEPT !.pc = "commit", !.res = rs])]
              /\ UNCHANGED <<ctx, ret>>
         ELSE /\ stack' = [stack EXCEPT ![t] = Pop(@)]
              /\ ctx' = cx
              /\ ret' = [ret EXCEPT ![t] = Returned(st, [f EXCEPT !.res = rs], cx)]
  /\ UNCHANGED <<drivers, sessions, txns, ops, bm>>

\* the body of a composable descriptor returns (ok) or throws: inside the
\* managed wrapper the work is done, in an enclosing transaction the
\* executor call that invoked the body returns with the body's outcome
BodyReturn(t, ok) ==
  /\ UNCHANGED <<lim, calc>>
  /\ Len(stack[t]) > 1
  /\ Top(t).kind = "code"
  /\ LET st == IF ok THEN "ok" ELSE "err"
         f == stack[t][Len(stack[t]) - 1]
     IN  IF f.pc = "work"
         THEN /\ stack' = [stack EXCEPT ![t] = SetTop(Pop(@), [f EXCEPT !.pc = "commit",
                                                                        !.res = st])]
              /\ ret' = [ret EXCEPT ![t] = NoRet]
         ELSE /\ stack' = [stack EXCEPT ![t] = Pop(Pop(@))]
              /\ ret' = [ret EXCEPT ![t] = Returned(st, [f EXCEPT !.res = st], ctx)]
  /\ UNCHANGED <<ctx, drivers, sessions, txns, ops, bm>>

\* executeRead / executeWrite settles (commit after work that succeeded,
\* rollback after work that failed); the finally block runs and the call
\* returns or throws
TxnFinish(t, committed) ==
  /\ UNCHANGED <<lim, calc>>
  /\ stack[t] # <<>>
  /\ Top(t).kind = "exec" /\ Top(t).pc = "commit"
  /\ LET f == Top(t)
         s == txns[f.txn].sess
     IN  /\ committed => (f.res = "ok" /\ TxnUsable(f.txn))
         /\ LET ss == IF committed THEN [sessions EXCEPT ![s].marks = bm + 1] ELSE sessions
                db1 == ManagedExit(ctx[f.db], ss)
                cx == [ctx EXCEPT ![f.db] = IF committed /\ ~f.isFn
                                            THEN WithSummary(db1, f.id) ELSE db1]
            IN  /\ sessions' = ss
                /\ bm' = IF committed THEN bm + 1 ELSE bm
                /\ ctx' = cx
                /\ txns' = [txns EXCEPT ![f.txn].st = IF @ = "active" THEN "done" ELSE @]
                /\ ret' = [ret EXCEPT ![t] =
                       Returned(IF committed THEN "ok" ELSE "err", f, cx)]
  /\ stack' = [stack EXCEPT ![t] = Pop(@)]
  /\ UNCHANGED <<drivers, ops>>

\* caller code catches the error a call threw and goes on
Catch(t) ==
  /\ UNCHANGED <<lim, calc>>
  /\ stack[t] # <<>>
  /\ Top(t).kind = "code"
  /\ ret[t].st = "err"
  /\ ret' = [ret EXCEPT ![t] = NoRet]
  /\ UNCHANGED <<ctx, drivers, sessions, txns, stack, ops, bm>>


(***************************************************************************)
(* dbCloseSession, dbClose, dbForgetBookmarks, newDbContext.               *)
(***************************************************************************)
\* session.close() on session s (Null: db.dbSession?.close() does nothing)
CloseOf(ss, s) == IF s = Null THEN ss ELSE [ss EXCEPT ![s].st = "closed"]

\* the close of session s has completed
CloseFinished(ss, s) == IF s = Null THEN ss ELSE [ss EXCEPT ![s].fin = TRUE]

\* mutant: dbClose leaves the driver open
CloseDriverKeep(ds, d) == ds

\* db?.dbDriver?.close() on driver d
CloseDriver(ds, d) == IF d = Null THEN ds ELSE [ds EXCEPT ![d] = "closed"]

\* dbCloseSession(db) up to its await; dbClose(db) when whole
DbCloseSession(t, c, whole) ==
  /\ UNCHANGED <<lim, calc>>
  /\ CanCall(t)
  /\ c \in Visible
  /\ ops' = ops + 1
  /\ sessions' = CloseOf(sessions, ctx[c].dbSession)
  /\ stack' = [stack EXCEPT ![t] = Append(@,
         [NoFrame EXCEPT !.kind = IF whole THEN "dbClose" ELSE "dbCloseSession",
                         !.db = c, !.id = ops + 1, !.pc = "session",
                         !.onSess = ctx[c].dbSession])]
  /\ ret' = [ret EXCEPT ![t] = NoRet]
  /\ UNCHANGED <<ctx, drivers, txns, bm>>

\* dbCloseSession after its await: db.dbSession = null.  dbClose goes on to
\* await db?.dbDriver?.close()
CloseSessionDone(t) ==
  /\ UNCHANGED <<lim, calc>>
  /\ stack[t] # <<>>
  /\ Top(t).kind \in {"dbClose", "dbCloseSession"} /\ Top(t).pc = "session"
  /\ LET f == Top(t)
         cx == [ctx EXCEPT ![f.db].dbSession = Null]
         d == ctx[f.db].dbDriver
     IN  /\ ctx' = cx
         /\ sessions' = CloseFinished(sessions, f.onSess)
         /\ IF f.kind = "dbCloseSession"
            THEN /\ stack' = [stack EXCEPT ![t] = Pop(@)]
                 /\ ret' = [ret EXCEPT ![t] = Returned("ok", f, cx)]
                 /\ UNCHANGED drivers
            ELSE /\ stack' = [stack EXCEPT ![t] = SetTop(@, [f EXCEPT !.pc = "driver",
                                                                      !.drv = d])]
                 /\ drivers' = CloseDriver(drivers, d)
                 /\ UNCHANGED ret
  /\ UNCHANGED <<txns, ops, bm>>

\* dbClose after the driver's close: db.dbDriver = null
CloseDriverDone(t) ==
  /\ UNCHANGED <<lim, calc>>
  /\ stack[t] # <<>>
  /\ Top(t).kind = "dbClose" /\ Top(t).pc = "driver"
  /\ LET f == Top(t)
         cx == [ctx EXCEPT ![f.db].dbDriver = Null]
     IN  /\ ctx' = cx
         /\ ret' = [ret EXCEPT ![t] = Returned("ok", f, cx)]
  /\ stack' = [stack EXCEPT ![t] = Pop(@)]
  /\ UNCHANGED <<drivers, sessions, txns, ops, bm>>

\* mutant: a derived context shares the bookmark fields of its parent
ForgetBookmarksShared(t, c) ==
  /\ UNCHANGED <<lim, calc>>
  /\ CanCall(t)
  /\ c \in Visible
  /\ ops' = ops + 1
  /\ ctx' = [i \in 1..Len(ctx) |->
               IF i = c THEN dbForgetBookmarks(ctx[i])
               ELSE IF ctx[i].parent = c
               THEN [ctx[i] EXCEPT !.dbMarks = Nullish, !.sp.bookmarks = Nullish]
               ELSE ctx[i]]
  /\ ret' = [ret EXCEPT ![t] = NoRet]
  /\ UNCHANGED <<drivers, sessions, txns, stack, bm>>

\* mutant: dbForgetBookmarks that reaches the context db was derived from
ForgetBookmarksParent(t, c) ==
  /\ UNCHANGED <<lim, calc>>
  /\ CanCall(t)
  /\ c \in Visible
  /\ ops' = ops + 1
  /\ ctx' = [i \in 1..Len(ctx) |->
               IF i = c THEN dbForgetBookmarks(ctx[i])
               ELSE IF i = ctx[c].parent
               THEN [ctx[i] EXCEPT !.dbMarks = Nullish, !.sp.bookmarks = Nullish]
               ELSE ctx[i]]
  /\ ret' = [ret EXCEPT ![t] = NoRet]
  /\ UNCHANGED <<drivers, sessions, txns, stack, bm>>

\* dbForgetBookmarks(db), synchronous
ForgetBookmarks(t, c) ==
  /\ UNCHANGED <<lim, calc>>
  /\ CanCall(t)
  /\ c \in Visible
  /\ ops' = ops + 1
  /\ ctx' = [ctx EXCEPT ![c] = dbForgetBookmarks(@)]
  /\ ret' = [ret EXCEPT ![t] = NoRet]
  /\ UNCHANGED <<drivers, sessions, txns, stack, bm>>

\* the three constructors
Construct(kind, base, ov, nd) ==
  CASE kind = "new" -> newDbContext(base, ov, nd)
    [] kind = "readonly" -> newReadonlyDbContext(base, ov, nd)
    [] kind = "writable" -> newWritableDbContext(base, ov, nd)

Kinds == {"new", "readonly", "writable"}

\* the context table and the driver table after a constructor call
\* answered r (nothing changes when newDbDriver threw)
AddContext(r) == IF r.ok THEN Append(ctx, r.db) ELSE ctx
AddDriver(r) == IF r.ok /\ r.made THEN Append(drivers, "open") ELSE drivers

\* the overrides caller code derives a context with: none, or ignoremarks
DeriveOverrides == {NoObject, [NoObject EXCEPT !.top.ignoremarks = "T"]}

\* the bookmarks of the unit of work that the executeCypher call task t made
\* last on context c has just completed; Absent when there is none
CompletedMarks(t, c) ==
  LET r == ret[t]
  IN  IF r.st = "ok" /\ r.fr.kind = "exec" /\ r.fr.db = c /\ r.fr.path = "single"
      THEN sessions[r.fr.onSess].marks
      ELSE IF r.st = "ok" /\ r.fr.kind = "exec" /\ r.fr.db = c /\ r.fr.path = "managed"
      THEN sessions[txns[r.fr.txn].sess].marks
      ELSE Absent

\* caller code derives a context from context c: with one of the three
\* constructors and no overrides, or with newDbContext and overrides
Derive(t, c, kind, ov) ==
  /\ UNCHANGED <<lim, calc>>
  /\ CanCall(t)
  /\ ov # NoObject => kind = "new"
  /\ c \in Visible
  /\ Len(ctx) < MaxCtx
  /\ ops' = ops + 1
  /\ LET r0 == Construct(kind, AsObject(ctx[c]), ov, Len(drivers) + 1)
         r == [r0 EXCEPT !.db.parent = c, !.db.inh = CompletedMarks(t, c)]
     IN  /\ ctx' = AddContext(r)
         /\ drivers' = AddDriver(r)
         /\ ret' = [ret EXCEPT ![t] = IF r.ok THEN NoRet ELSE [NoRet EXCEPT !.st = "err"]]
  /\ UNCHANGED <<sessions, txns, stack, bm>>


(***************************************************************************)
(* executeAndStreamCypherResults.                                          *)
(***************************************************************************)
\* mutant: the stream is always hosted on the caller's context
UseSiblingNever(db) == FALSE

\* executeAndStreamCypherResults, line 268: db.dbTxn ? newDbContext(db) : db
UseSibling(db) == db.dbTxn # Null

\* the call up to session.run(...).subscribe(...): a sibling context hosts
\* the stream when db holds a transaction handle
ExecuteAndStream(t, c) ==
  /\ UNCHANGED <<lim, calc>>
  /\ CanCall(t)
  /\ c \in Visible
  /\ UseSibling(ctx[c]) => Len(ctx) < MaxCtx
  /\ ops' = ops + 1
  /\ LET db == ctx[c]
         sib == UseSibling(db)
         r == newDbContext(AsObject(db), NoObject, Len(drivers) + 1)
         h == IF sib THEN Len(ctx) + 1 ELSE c
         cx1 == IF sib THEN Append(ctx, [r.db EXCEPT !.via = "sibling", !.parent = c]) ELSE ctx
         fresh == SessionMissing(cx1[h])
         s == IF fresh THEN Len(sessions) + 1 ELSE cx1[h].dbSession
         fr0 == [NoFrame EXCEPT !.kind = "stream", !.db = c, !.id = ops + 1, !.host = h,
                                !.sess0 = db.dbSession, !.txn0 = db.dbTxn, !.cap0 = db.ncap]
     IN  IF sib /\ ~r.ok
         THEN \* newDbDriver threw
              /\ ret' = [ret EXCEPT ![t] = Returned("err", fr0, ctx)]
              /\ UNCHANGED <<ctx, drivers, sessions, stack>>
         ELSE /\ drivers' = IF sib THEN AddDriver(r) ELSE drivers
              /\ IF fresh /\ db.dbDriver = Null
                 THEN \* db.dbDriver.session(...) on a null driver: TypeError
                      /\ ctx' = cx1
                      /\ ret' = [ret EXCEPT ![t] = Returned("err", fr0, cx1)]
                      /\ UNCHANGED <<sessions, stack>>
                 ELSE /\ ctx' = [cx1 EXCEPT ![h].dbSession = s]
                      /\ sessions' = IF fresh THEN Append(sessions, NewSession(h, db.sp))
                                     ELSE sessions
                      /\ stack' = [stack EXCEPT ![t] = Append(@,
                             [fr0 EXCEPT !.pc = "stream", !.path = "stream", !.onSess = s])]
                      /\ ret' = [ret EXCEPT ![t] = NoRet]
  /\ UNCHANGED <<txns, bm>>

\* the callbacks of the observer, as entries of obs: onKeys, onCompleted,
\* onError; onNext of the k-th record is k
KeysEvent == 0
CompletedEvent == -1
ErrorEvent == -2

\* mutant: records handed to the observer newest first
OnNextNewestFirst(obs, k) == <<k>> \o obs

\* lines 275-280: each driver callback is passed on to the observer at once
OnKeys(obs) == Append(obs, KeysEvent)
OnNext(obs, k) == Append(obs, k)

\* the driver delivers the field names: once, after the statement was
\* accepted and before any record
StreamKeys(t) ==
  /\ UNCHANGED <<lim, calc>>
  /\ stack[t] # <<>>
  /\ Top(t).kind = "stream"
  /\ Top(t).obs = <<>> /\ Top(t).arr = 0
  /\ SessionUsable(Top(t).onSess)
  /\ stack' = [stack EXCEPT ![t] = SetTop(@, [Top(t) EXCEPT !.obs = OnKeys(@)])]
  /\ UNCHANGED <<ctx, drivers, sessions, txns, ret, ops, bm>>

\* the driver delivers the next record
StreamNext(t) ==
  /\ UNCHANGED <<lim, calc>>
  /\ stack[t] # <<>>
  /\ Top(t).kind = "stream"
  /\ Top(t).obs # <<>>
  /\ Top(t).arr < MaxRecords
  /\ SessionUsable(Top(t).onSess)
  /\ stack' = [stack EXCEPT ![t] = SetTop(@, [Top(t) EXCEPT !.arr = @ + 1,
                                                            !.obs = OnNext(@, Top(t).arr + 1)])]
  /\ UNCHANGED <<ctx, drivers, sessions, txns, ret, ops, bm>>

\* mutant: the copy-back also stages the sibling's bookmarks on the caller
CopyBackStaged(db, our) ==
  [db EXCEPT !.dbMarks = our.dbMarks, !.dbSummary = our.dbSummary,
             !.sp.bookmarks = our.sp.bookmarks]

\* mutant: only the bookmarks are copied back
CopyBackMarksOnly(db, our) == [db EXCEPT !.dbMarks = our.dbMarks]

\* lines 285-286: db.dbMarks = ourDb.dbMarks; db.dbSummary = ourDb.dbSummary
CopyBack(db, our) == [db EXCEPT !.dbMarks = our.dbMarks, !.dbSummary = our.dbSummary]

\* onCompleted: capture on the hosting context, copy back to the caller's
\* context and close the sibling's session when the host is a sibling
StreamCompleted(t) ==
  /\ UNCHANGED <<lim, calc>>
  /\ stack[t] # <<>>
  /\ Top(t).kind = "stream"
  /\ Top(t).obs # <<>>
  /\ SessionUsable(Top(t).onSess)
  /\ LET f == [Top(t) EXCEPT !.obs = Append(@, CompletedEvent), !.res = "ok"]
         h == f.host
         ss == [sessions EXCEPT ![f.onSess].marks = bm + 1]
         our == WithSummary(dbHandleLastBookmarks(ctx[h], ss), f.id)
         cx == IF h = f.db THEN [ctx EXCEPT ![h] = our]
               ELSE [ctx EXCEPT ![h] = our, ![f.db] = CopyBack(@, our)]
     IN  /\ ctx' = cx
         /\ sessions' = IF h = f.db THEN ss ELSE CloseOf(ss, our.dbSession)
         /\ ret' = [ret EXCEPT ![t] = Returned("ok", f, cx)]
  /\ bm' = bm + 1
  /\ stack' = [stack EXCEPT ![t] = Pop(@)]
  /\ UNCHANGED <<drivers, txns, ops>>

\* mutant: onError without the close of the sibling's session
StreamErrorLeavesOpen(t) ==
  /\ UNCHANGED <<lim, calc>>
  /\ stack[t] # <<>>
  /\ Top(t).kind = "stream"
  /\ LET f == [Top(t) EXCEPT !.obs = Append(@, ErrorEvent), !.res = "err"]
     IN  ret' = [ret EXCEPT ![t] = Returned("err", f, ctx)]
  /\ stack' = [stack EXCEPT ![t] = Pop(@)]
  /\ UNCHANGED <<ctx, drivers, sessions, txns, ops, bm>>

\* onError: the sibling's session is closed, the promise rejects
StreamError(t) ==
  /\ UNCHANGED <<lim, calc>>
  /\ stack[t] # <<>>
  /\ Top(t).kind = "stream"
  /\ LET f == [Top(t) EXCEPT !.obs = Append(@, ErrorEvent), !.res = "err"]
     IN  /\ sessions' = IF f.host = f.db THEN sessions
                        ELSE CloseOf(sessions, ctx[f.host].dbSession)
         /\ ret' = [ret EXCEPT ![t] = Returned("err", f, ctx)]
  /\ stack' = [stack EXCEPT ![t] = Pop(@)]
  /\ UNCHANGED <<ctx, drivers, txns, ops, bm>>

\* the driver completes the close of a session that no dbCloseSession awaits
\* (the close() calls of the stream callbacks)
SessionCloseDone(s) ==
  /\ UNCHANGED <<lim, calc>>
  /\ sessions[s].st = "closed" /\ ~sessions[s].fin
  /\ \A t \in Tasks : \A i \in 1..Len(stack[t]) :
       ~(stack[t][i].kind \in {"dbClose", "dbCloseSession"} /\ stack[t][i].onSess = s)
  /\ sessions' = CloseFinished(sessions, s)
  /\ UNCHANGED <<ctx, drivers, txns, stack, ret, ops, bm>>

(***************************************************************************)
(* Specifications.                                                         *)
(***************************************************************************)
\* the configurations the first context is created from: write-enabled,
\* read-only, and write-enabled with ignoremarks
InitParms ==
  {[NoParms EXCEPT !.dbUrl = "bolt", !.dbName = "a", !.allowwrite = "T"],
   [NoParms EXCEPT !.dbUrl = "bolt", !.dbName = "a", !.readonly = "T"],
   [NoParms EXCEPT !.dbUrl = "bolt", !.dbName = "a", !.allowwrite = "T", !.ignoremarks = "T"]}

\* one context created by newDbContext from a configuration; the tasks in
\* running are in their own code
InitWith(running) ==
  /\ \E p \in InitParms : ctx = <<newDbContext(PlainParms(p), NoObject, 1).db>>
  /\ drivers = <<"open">>
  /\ sessions = <<>>
  /\ txns = <<>>
  /\ stack = [t \in Tasks |-> IF t \in running THEN <<CodeFrame(1)>> ELSE <<>>]
  /\ ret = [t \in Tasks |-> NoRet]
  /\ ops = 0
  /\ bm = 0

Init == InitWith({1}) /\ lim = MaxOps /\ calc = NoCalc

Step(t) ==
  \/ \E c \in 1..MaxCtx, isFn \in BOOLEAN : ExecuteCypher(t, c, isFn, "plain")
  \/ \E ok \in BOOLEAN : RunDone(t, ok)
  \/ \E ok \in BOOLEAN : TxnBegin(t, ok)
  \/ \E ok \in BOOLEAN : TxnRunDone(t, ok)
  \/ \E ok \in BOOLEAN : BodyReturn(t, ok)
  \/ \E committed \in BOOLEAN : TxnFinish(t, committed)
  \/ Catch(t)
  \/ \E c \in 1..MaxCtx, whole \in BOOLEAN : DbCloseSession(t, c, whole)
  \/ CloseSessionDone(t)
  \/ CloseDriverDone(t)
  \/ \E c \in 1..MaxCtx : ForgetBookmarks(t, c)
  \/ \E c \in 1..MaxCtx, kind \in Kinds, ov \in DeriveOverrides : Derive(t, c, kind, ov)
  \/ \E c \in 1..MaxCtx : ExecuteAndStream(t, c)
  \/ StreamKeys(t)
  \/ StreamNext(t)
  \/ StreamCompleted(t)
  \/ StreamError(t)

Next ==
  \/ \E t \in Tasks : Step(t)
  \/ \E s \in 1..Len(sessions) : SessionCloseDone(s)

\* one task
Spec == Init /\ [][Next]_vars

\* every task running, all on the contexts they share
InitTasks == InitWith(Tasks) /\ lim = MaxOps /\ calc = NoCalc

SpecTasks == InitTasks /\ [][Next]_vars

\* the bookmark chain of one context: a write-enabled context with
\* ignoremarks unset, on which one task runs executeCypher and dbCloseSession
InitChain ==
  /\ InitWith({1})
  /\ Truthy(ctx[1].dbParms.allowwrite) /\ ~Truthy(ctx[1].dbParms.ignoremarks)
  /\ lim = MaxChain
  /\ calc = NoCalc

StepChain(t) ==
  \/ \E isFn \in BOOLEAN :
       \E stmt \in IF isFn THEN {"plain"} ELSE Statements : ExecuteCypher(t, 1, isFn, stmt)
  \/ \E ok \in BOOLEAN : RunDone(t, ok)
  \/ \E ok \in BOOLEAN : TxnBegin(t, ok)
  \/ \E ok \in BOOLEAN : TxnRunDone(t, ok)
  \/ \E ok \in BOOLEAN : BodyReturn(t, ok)
  \/ \E committed \in BOOLEAN : TxnFinish(t, committed)
  \/ Catch(t)
  \/ DbCloseSession(t, 1, FALSE)
  \/ CloseSessionDone(t)

NextChain == \E t \in Tasks : StepChain(t)

SpecChain == InitChain /\ [][NextChain]_vars


\* calls on one Idle context from every task at once: executeCypher and
\* executeAndStreamCypherResults and the steps in which they settle
InitOpen ==
  /\ InitWith(Tasks)
  /\ Truthy(ctx[1].dbParms.allowwrite) /\ ~Truthy(ctx[1].dbParms.ignoremarks)
  /\ lim = MaxOpen
  /\ calc = NoCalc

StepOpen(t) ==
  \/ \E isFn \in BOOLEAN : ExecuteCypher(t, 1, isFn, "plain")
  \/ \E ok \in BOOLEAN : RunDone(t, ok)
  \/ \E ok \in BOOLEAN : TxnBegin(t, ok)
  \/ \E ok \in BOOLEAN : TxnRunDone(t, ok)
  \/ \E ok \in BOOLEAN : BodyReturn(t, ok)
  \/ \E committed \in BOOLEAN : TxnFinish(t, committed)
  \/ Catch(t)
  \/ ExecuteAndStream(t, 1)
  \/ StreamKeys(t)
  \/ StreamNext(t)
  \/ StreamCompleted(t)
  \/ StreamError(t)

NextOpen ==
  \/ \E t \in Tasks : StepOpen(t)
  \/ \E s \in 1..Len(sessions) : SessionCloseDone(s)

SpecOpen == InitOpen /\ [][NextOpen]_vars


\* the bookmark chain with dbForgetBookmarks: literal statements, closes
\* of the session and forgets on one context
InitForget ==
  /\ InitWith({1})
  /\ Truthy(ctx[1].dbParms.allowwrite) /\ ~Truthy(ctx[1].dbParms.ignoremarks)
  /\ lim = MaxForget
  /\ calc = NoCalc

StepForget(t) ==
  \/ ExecuteCypher(t, 1, FALSE, "plain")
  \/ \E ok \in BOOLEAN : RunDone(t, ok)
  \/ \E ok \in BOOLEAN : TxnBegin(t, ok)
  \/ \E ok \in BOOLEAN : TxnRunDone(t, ok)
  \/ \E committed \in BOOLEAN : TxnFinish(t, committed)
  \/ Catch(t)
  \/ ForgetBookmarks(t, 1)
  \/ DbCloseSession(t, 1, FALSE)
  \/ CloseSessionDone(t)

NextForget == \E t \in Tasks : StepForget(t)

SpecForget == InitForget /\ [][NextForget]_vars


(***************************************************************************)
(* The constructors on their own: contexts created from configurations     *)
(* and derived from one another, with overrides.                           *)
(***************************************************************************)
\* configurations a context is created from
CfgParms ==
  {[NoParms EXCEPT !.dbUrl = u, !.dbName = "a", !.allowwrite = w, !.readonly = r] :
     u \in {"U", "", "bolt"}, w \in {"U", "T"}, r \in {"U", "T"}}

\* overrides: none or DbParmsType keys at the top level, a nested dbParms
\* object, or a dbSessionParms object
CfgOverrides ==
  {[NoObject EXCEPT !.top = [NoParms EXCEPT !.allowwrite = w, !.readonly = r, !.dbName = n]] :
     w \in Flags, r \in {"U", "T"}, n \in {"U", "b"}}
  \cup
  {[NoObject EXCEPT !.hasParms = TRUE,
                    !.dbParms = [NoParms EXCEPT !.allowwrite = w, !.readonly = r,
                                                !.dbName = n]] :
     w \in Flags, r \in {"U", "T"}, n \in {"U", "b"}}
  \cup
  {[NoObject EXCEPT !.sp = [NoSessionParms EXCEPT !.mode = m]] : m \in {"READ", "WRITE"}}

\* overrides that supply a driver created by the caller
CfgDriverOverrides == {[NoObject EXCEPT !.dbDriver = d] : d \in 1..MaxCtx}

\* a constructor called on a configuration: the first context, or a further
\* one on a driver the overrides supply
CfgCreate(kind, p, ov) ==
  /\ UNCHANGED <<lim, calc>>
  /\ Len(ctx) < MaxCtx
  /\ IF ov.dbDriver = Null THEN ctx = <<>> ELSE ov.dbDriver \in 1..Len(drivers)
  /\ LET r == Construct(kind, PlainParms(p), ov, Len(drivers) + 1)
     IN  /\ ctx' = AddContext(r)
         /\ drivers' = AddDriver(r)
         /\ ret' = [ret EXCEPT ![1] = IF r.ok THEN NoRet ELSE [NoRet EXCEPT !.st = "err"]]
  /\ UNCHANGED <<sessions, txns, stack, ops, bm>>

\* a constructor called on an existing context
CfgDerive(kind, c, ov) ==
  /\ UNCHANGED <<lim, calc>>
  /\ c \in 1..Len(ctx)
  /\ Len(ctx) < MaxCtx
  /\ LET r0 == Construct(kind, AsObject(ctx[c]), ov, Len(drivers) + 1)
         r == [r0 EXCEPT !.db.parent = c]
     IN  /\ ctx' = AddContext(r)
         /\ drivers' = AddDriver(r)
         /\ ret' = [ret EXCEPT ![1] = IF r.ok THEN NoRet ELSE [NoRet EXCEPT !.st = "err"]]
  /\ UNCHANGED <<sessions, txns, stack, ops, bm>>

\* setDbSessionParmsDefaultAccessMode called again on a context
CfgAccessMode(c) ==
  /\ UNCHANGED <<lim, calc>>
  /\ c \in 1..Len(ctx)
  /\ ctx' = [ctx EXCEPT ![c] = setDbSessionParmsDefaultAccessMode(@)]
  /\ UNCHANGED <<drivers, sessions, txns, stack, ret, ops, bm>>

\* nothing constructed yet
NoProgram ==
  /\ ctx = <<>>
  /\ drivers = <<>>
  /\ sessions = <<>>
  /\ txns = <<>>
  /\ stack = [t \in Tasks |-> <<>>]
  /\ ret = [t \in Tasks |-> NoRet]
  /\ ops = 0
  /\ lim = MaxOps
  /\ bm = 0

InitCfg == NoProgram /\ calc = NoCalc

NextCfg ==
  \/ \E kind \in Kinds, p \in CfgParms, ov \in CfgOverrides \cup CfgDriverOverrides :
       CfgCreate(kind, p, ov)
  \/ \E kind \in Kinds, c \in 1..MaxCtx, ov \in CfgOverrides : CfgDerive(kind, c, ov)
  \/ \E c \in 1..MaxCtx : CfgAccessMode(c)

SpecCfg == InitCfg /\ [][NextCfg]_vars


(***************************************************************************)
(* Properties.                                                             *)
(***************************************************************************)
\* the executor calls task t is inside, by position in its stack
ExecAt(t) == {i \in 1..Len(stack[t]) : stack[t][i].kind = "exec"}

\* the sessions opened through context c that are not closed
OpenSessions(c) == {s \in 1..Len(sessions) : sessions[s].ctx = c /\ sessions[s].st = "open"}

\* the managed transactions begun through context c that have not finished
ActiveTxns(c) == {k \in 1..Len(txns) : txns[k].ctx = c /\ txns[k].st = "active"}

\* C1: an executor call made from the body of a composable descriptor that
\* runs inside a managed transaction on db, on that same db, runs against the
\* handle in db.dbTxn (a literal is sent on it) and begins no transaction;
\* the top-level call begins exactly one managed transaction on db
C1_NestedRunsOnStoredTxn ==
  \A t \in Tasks : \A i \in ExecAt(t), j \in ExecAt(t) :
    LET f == stack[t][i]
        g == stack[t][j]
    IN  (i < j /\ f.path = "managed" /\ f.pc = "work" /\ g.db = f.db) =>
          /\ g.path = "nested"
          /\ g.txn = Null
          /\ ~g.isFn => (g.onTxn = f.txn /\ g.onSess = Null)
          /\ \A k \in 1..Len(txns) :
               (txns[k].ctx = f.db /\ txns[k].task = t /\ txns[k].id >= f.id) => k = f.txn

\* C2 as claimed: every literal call on a context without an active
\* transaction is a single-shot session.run and begins no managed
\* transaction, whether or not the session was already open
C2_LiteralAlwaysSingleShot ==
  \A t \in Tasks : \A i \in ExecAt(t) :
    LET f == stack[t][i]
    IN  (~f.isFn /\ f.txn0 = Null) => (f.path = "single" /\ f.txn = Null)

\* C3: when a call that took the managed path returns or throws, db.dbTxn
\* is null and dbHandleLastBookmarks has run on db, and an error raised by
\* the transaction body has reached the caller
C3_ManagedExitClearsAndCaptures ==
  \A t \in Tasks :
    LET r == ret[t]
    IN  (r.fr.kind = "exec" /\ r.fr.path = "managed") =>
          /\ r.dbTxn = Null
          /\ r.ncap > r.fr.cap0
          /\ r.fr.res = "err" => r.st = "err"

\* C3 witness: a managed call whose body raised has thrown to its caller
C3_Witness ==
  \E t \in Tasks :
    /\ ret[t].fr.kind = "exec" /\ ret[t].fr.path = "managed" /\ ret[t].fr.isFn
    /\ ret[t].fr.res = "err" /\ ret[t].st = "err"
    /\ txns[ret[t].fr.txn].st = "done"

\* C4: a literal statement that fails on a context with an active managed
\* transaction was sent on that transaction's handle, not on session.run
\* and not in a new transaction, and leaves db.dbTxn and db.dbSession as
\* they were
C4_FailedLiteralInTxnLeavesHandles ==
  \A t \in Tasks :
    LET r == ret[t]
    IN  (r.fr.kind = "exec" /\ ~r.fr.isFn /\ r.fr.txn0 # Null /\ r.fr.path # "none"
         /\ r.st = "err") =>
          /\ r.dbTxn = r.fr.txn0
          /\ r.dbSession = r.fr.sess0
          /\ r.fr.onTxn = r.fr.txn0
          /\ r.fr.onSess = Null
          /\ r.fr.txn = Null

\* C5: when a top-level call fails, on the single-shot path or on the
\* managed path, the bookmarks have been captured on the context
C5_FailedCallHasCaptured ==
  \A t \in Tasks :
    LET r == ret[t]
    IN  (r.fr.kind = "exec" /\ r.fr.path \in {"single", "managed"} /\ r.st = "err") =>
          r.ncap > r.fr.cap0

\* C5 amended: when a top-level call fails the error is with its caller;
\* on the managed path the bookmarks have been captured on the context by
\* then, whereas on the single-shot path (session.run rejected), and when
\* the call fails before a statement is sent, no capture has been performed
C5_FailedCallCapturesOnManagedPathOnly ==
  \A t \in Tasks :
    LET r == ret[t]
    IN  (r.fr.kind = "exec" /\ r.fr.path \in {"single", "managed", "none"} /\ r.st = "err") =>
          /\ stack[t] # <<>> /\ Top(t).kind = "code"
          /\ r.fr.path = "managed" => r.ncap > r.fr.cap0
          /\ r.fr.path \in {"single", "none"} => r.ncap = r.fr.cap0

\* C5 witness: a single-shot session.run has been rejected and the error is
\* with the caller
C5_Witness ==
  \E t \in Tasks :
    /\ ret[t].fr.kind = "exec" /\ ret[t].fr.path = "single" /\ ret[t].st = "err"
    /\ Top(t).kind = "code"

\* C6: each context has at most one session opened through it that is not
\* closed, and at most one managed transaction begun through it that has
\* not finished
C6_OneSessionOneTxn ==
  \A c \in 1..Len(ctx) :
    /\ Cardinality(OpenSessions(c)) <= 1
    /\ Cardinality(ActiveTxns(c)) <= 1

\* C6 witness: a context on its second session, an earlier one closed, with
\* a managed transaction active
C6_Witness ==
  \E c \in 1..Len(ctx) :
    /\ OpenSessions(c) # {}
    /\ ActiveTxns(c) # {}
    /\ \E s \in 1..Len(sessions) : sessions[s].ctx = c /\ sessions[s].st = "closed"

\* C7: with several tasks on one context, no two managed transactions begun
\* through the context are unfinished at once
C7_OneTxnAcrossTasks ==
  \A c \in 1..Len(ctx) : Cardinality(ActiveTxns(c)) <= 1

\* C8: the access mode is READ whenever readonly is set, whatever
\* allowwrite; WRITE when readonly is not set and allowwrite is; and
\* setDbSessionParmsDefaultAccessMode applied again changes nothing
C8_ReadonlyDominates ==
  \A c \in 1..Len(ctx) :
    LET db == ctx[c]
    IN  /\ Truthy(db.dbParms.readonly) => db.sp.mode = "READ"
        /\ (~Truthy(db.dbParms.readonly) /\ Truthy(db.dbParms.allowwrite)) =>
             db.sp.mode = "WRITE"
        /\ setDbSessionParmsDefaultAccessMode(db) = db

\* C9: a context returned by newReadonlyDbContext has defaultAccessMode
\* READ, so that its managed units of work use executeRead
C9_ReadonlyContextReads ==
  \A c \in 1..Len(ctx) :
    ctx[c].via = "readonly" => (ctx[c].sp.mode = "READ" /\ TxnMode(ctx[c]) = "READ")

\* C10: a context returned by newWritableDbContext has dbParms.allowwrite
\* set and defaultAccessMode WRITE
C10_WritableContextWrites ==
  \A c \in 1..Len(ctx) :
    ctx[c].via = "writable" =>
      (Truthy(ctx[c].dbParms.allowwrite) /\ ctx[c].sp.mode = "WRITE")

\* the sessions opened through context c so far, open or closed
SessionsOf(c) == {s \in 1..Len(sessions) : sessions[s].ctx = c}

\* the session opened most recently among the set S of sessions
Latest(S) == CHOOSE s \in S : \A u \in S : u <= s

\* a bookmark value that holds no bookmarks: key absent, null, empty array
HoldsNoMarks(b) == b \in {Absent, Nullish, NoMarks}

\* this step opens a session (it is the one after the last of sessions)
OpensSession == Len(sessions') = Len(sessions) + 1

\* this step is an executeCypher call that task t starts
StartsExec(t) ==
  /\ Len(stack'[t]) > Len(stack[t])
  /\ \E i \in (Len(stack[t]) + 1)..Len(stack'[t]) : stack'[t][i].kind = "exec"

\* C11: B derived read-only from a write-enabled A that has just completed
\* a unit of work, ignoremarks unset on both: the first session opened
\* through B is created with the bookmarks of A's session after that work
C11_DerivedReadonlySeesWrite ==
  [][\A b \in 1..Len(ctx) :
       (/\ OpensSession
        /\ sessions'[Len(sessions')].ctx = b
        /\ SessionsOf(b) = {}
        /\ ctx[b].via = "readonly" /\ ctx[b].parent # Null
        /\ ctx[b].inh # Absent
        /\ ctx[b].nfg = 0
        /\ Truthy(ctx[ctx[b].parent].dbParms.allowwrite)
        /\ ~Truthy(ctx[ctx[b].parent].dbParms.ignoremarks)
        /\ ~Truthy(ctx[b].dbParms.ignoremarks))
       => /\ sessions'[Len(sessions')].init = ctx[b].inh
          /\ ctx[b].inh > NoMarks]_vars

\* C11 witness: a session of such a B that was created with the bookmarks
\* of A's write
C11_Witness ==
  \E b \in 1..Len(ctx) : \E s \in SessionsOf(b) :
    /\ ctx[b].via = "readonly" /\ ctx[b].parent # Null
    /\ Truthy(ctx[ctx[b].parent].dbParms.allowwrite)
    /\ ~Truthy(ctx[b].dbParms.ignoremarks)
    /\ ctx[b].inh > NoMarks
    /\ sessions[s].init = ctx[b].inh

\* C12: a context derived with ignoremarks set in its merged configuration
\* holds no bookmarks of its parent in dbSessionParms.bookmarks; one derived
\* with ignoremarks unset holds the bookmarks its parent has staged
C12_IgnoremarksDropsInherited ==
  [][Len(ctx') = Len(ctx) + 1 =>
       LET c == ctx'[Len(ctx')]
       IN  c.parent # Null =>
             /\ Truthy(c.dbParms.ignoremarks) => HoldsNoMarks(c.sp.bookmarks)
             /\ ~Truthy(c.dbParms.ignoremarks) => c.sp.bookmarks = ctx[c.parent].sp.bookmarks]_vars

\* C13: a session that executeCypher opens on a context (ignoremarks unset,
\* bookmarks never forgotten) whose previous session completed a unit of
\* work and was closed is created with the bookmarks of that previous session
C13_NextSessionStartsFromLastWork ==
  [][\A t \in Tasks : \A c \in 1..Len(ctx) :
       (/\ OpensSession /\ StartsExec(t)
        /\ sessions'[Len(sessions')].ctx = c
        /\ SessionsOf(c) # {}
        /\ sessions[Latest(SessionsOf(c))].st = "closed"
        /\ sessions[Latest(SessionsOf(c))].marks > NoMarks
        /\ ctx[c].dbDriver # Null
        /\ ctx[c].nfg = 0
        /\ ~Truthy(ctx[c].dbParms.ignoremarks))
       => sessions'[Len(sessions')].init = sessions[Latest(SessionsOf(c))].marks]_vars

\* C14: a bookmark capture leaves in db.dbMarks the latest bookmarks of the
\* current session (nothing when there is no session), and in
\* dbSessionParms.bookmarks the same when ignoremarks is unset and null when
\* it is set
C14_CaptureStoresSessionMarks ==
  [][\A c \in 1..Len(ctx) :
       ctx'[c].ncap # ctx[c].ncap =>
         LET db == ctx'[c]
             m == IF db.dbSession = Null THEN Nullish ELSE sessions'[db.dbSession].marks
         IN  /\ db.dbMarks = m
             /\ db.sp.bookmarks = IF Truthy(db.dbParms.ignoremarks) THEN Nullish ELSE m]_vars

\* C14 witness: a capture on a context with ignoremarks set has stored the
\* session's bookmarks and staged none
C14_Witness ==
  \E c \in 1..Len(ctx) :
    /\ ctx[c].ncap > 0 /\ ctx[c].nfg = 0
    /\ Truthy(ctx[c].dbParms.ignoremarks)
    /\ ctx[c].dbSession # Null
    /\ ctx[c].dbMarks = sessions[ctx[c].dbSession].marks
    /\ ctx[c].dbMarks > NoMarks
    /\ ctx[c].sp.bookmarks = Nullish

\* C15: a bookmark capture or a dbForgetBookmarks on a parent leaves dbMarks
\* and dbSessionParms.bookmarks of the contexts derived from it unchanged
C15_ChildKeepsSnapshot ==
  [][\A c \in 1..Len(ctx) :
       LET p == ctx[c].parent
       IN  (p # Null /\ (ctx'[p].ncap # ctx[p].ncap \/ ctx'[p].nfg # ctx[p].nfg)) =>
             /\ ctx'[c].dbMarks = ctx[c].dbMarks
             /\ ctx'[c].sp.bookmarks = ctx[c].sp.bookmarks]_vars

\* C15 witness: a derived context nothing was done on, whose parent has
\* since captured or forgotten, holds bookmarks its parent no longer holds
C15_Witness ==
  \E c \in 1..Len(ctx) :
    /\ ctx[c].parent # Null
    /\ ctx[c].ncap = 0 /\ ctx[c].nfg = 0 /\ ctx[c].via # "sibling"
    /\ ctx[ctx[c].parent].ncap + ctx[ctx[c].parent].nfg > 0
    /\ ctx[c].sp.bookmarks # ctx[ctx[c].parent].sp.bookmarks
    /\ ctx[c].dbMarks # ctx[ctx[c].parent].dbMarks

\* C16: dbForgetBookmarks(db) leaves db.dbMarks and dbSessionParms.bookmarks
\* empty and every other field of the context as it was
C16_ForgetClearsOnlyBookmarks ==
  [][\A c \in 1..Len(ctx) :
       ctx'[c].nfg # ctx[c].nfg =>
         /\ ctx'[c].dbMarks = Nullish
         /\ ctx'[c].sp.bookmarks = Nullish
         /\ ctx'[c] = [ctx[c] EXCEPT !.dbMarks = Nullish, !.sp.bookmarks = Nullish,
                                     !.nfg = @ + 1]
         /\ \A o \in 1..Len(ctx) : o # c => ctx'[o] = ctx[o]]_vars

\* C16 witness: bookmarks forgotten on a context that had captured some and
\* still has its session open
C16_Witness ==
  \E c \in 1..Len(ctx) :
    /\ ctx[c].nfg > 0 /\ ctx[c].ncap > 0
    /\ ctx[c].dbSession # Null /\ sessions[ctx[c].dbSession].marks > NoMarks
    /\ ctx[c].dbMarks = Nullish /\ ctx[c].sp.bookmarks = Nullish

\* the streams task t is inside, by position in its stack
StreamAt(t) == {i \in 1..Len(stack[t]) : stack[t][i].kind = "stream"}

\* the stream whose return ret[t] records was subscribed (not a call that
\* threw before session.run)
StreamEnded(t) == ret[t].fr.kind = "stream" /\ ret[t].fr.path = "stream"

\* how a stream with frame f is hosted, db0 and txn0 the caller's handles now
HostedAsClaimed(f, dbSession, dbTxn) ==
  /\ f.txn0 # Null =>
       /\ f.host # f.db
       /\ ctx[f.host].via = "sibling" /\ ctx[f.host].parent = f.db
       /\ ctx[f.host].dbDriver = ctx[f.db].dbDriver
       /\ ctx[f.host].dbSession = f.onSess
       /\ sessions[f.onSess].ctx = f.host
       /\ f.onSess # f.sess0
       /\ \A k \in 1..Len(txns) : txns[k].sess # f.onSess
       /\ dbSession = f.sess0 /\ dbTxn = f.txn0
  /\ f.txn0 = Null =>
       /\ f.host = f.db
       /\ f.onSess = dbSession
       /\ f.sess0 # Null => f.onSess = f.sess0
       /\ f.sess0 = Null => (sessions[f.onSess].ctx = f.db /\ SessionsOf(f.db) # {})

\* C17: a stream started on a context that holds a transaction handle is
\* hosted on a new sibling context with its own session on the same driver,
\* and the caller's dbSession and dbTxn are as they were throughout and at
\* its end; started without one it is hosted on the caller's context, on
\* the open session when there is one
C17_StreamHostedOnSibling ==
  \A t \in Tasks :
    /\ \A i \in StreamAt(t) :
         HostedAsClaimed(stack[t][i], ctx[stack[t][i].db].dbSession, ctx[stack[t][i].db].dbTxn)
    /\ StreamEnded(t) => HostedAsClaimed(ret[t].fr, ret[t].dbSession, ret[t].dbTxn)

\* C17 witness: a stream started inside a managed transaction has completed
\* on its sibling
C17_Witness ==
  \E t \in Tasks :
    /\ StreamEnded(t) /\ ret[t].st = "ok"
    /\ ret[t].fr.txn0 # Null /\ ret[t].fr.host # ret[t].fr.db
    /\ ret[t].dbTxn = ret[t].fr.txn0

IsRecord(e) == e > 0
IsTerminal(e) == e \in {CompletedEvent, ErrorEvent}

\* the callbacks in obs are in the order of the contract, for arr records
\* delivered: onKeys first if at all, the records in arrival order, a
\* terminal callback last if at all
Ordered(obs, arr) ==
  /\ \A i \in 1..Len(obs) : obs[i] = KeysEvent => i = 1
  /\ SelectSeq(obs, IsRecord) = [k \in 1..arr |-> k]
  /\ \A i \in 1..Len(obs) : IsTerminal(obs[i]) => i = Len(obs)

\* C18: the observer of a stream receives at most one onKeys, before every
\* onNext; every record at once and in arrival order; no terminal callback
\* while the stream is pending and exactly one when the promise settles,
\* which resolves with the summary after onCompleted and rejects after
\* onError
C18_CallbackOrder ==
  \A t \in Tasks :
    /\ \A i \in StreamAt(t) :
         LET f == stack[t][i]
         IN  /\ Ordered(f.obs, f.arr)
             /\ \A j \in 1..Len(f.obs) : ~IsTerminal(f.obs[j])
    /\ StreamEnded(t) =>
         LET r == ret[t]
         IN  /\ Ordered(r.fr.obs, r.fr.arr)
             /\ r.fr.obs # <<>> /\ IsTerminal(r.fr.obs[Len(r.fr.obs)])
             /\ r.st = "ok" <=> r.fr.obs[Len(r.fr.obs)] = CompletedEvent
             /\ r.st = "err" <=> r.fr.obs[Len(r.fr.obs)] = ErrorEvent
             /\ r.st = "ok" => r.dbSummary = r.fr.id

\* C18 witness: a stream of two records has completed
C18_Witness ==
  \E t \in Tasks :
    /\ StreamEnded(t) /\ ret[t].st = "ok"
    /\ ret[t].fr.obs = <<KeysEvent, 1, 2, CompletedEvent>>

\* C19: when a stream has terminated, the session of a sibling that hosted
\* it is closed; a caller's session that hosted it is open and is still
\* the caller's dbSession
C19_SiblingSessionClosed ==
  \A t \in Tasks :
    StreamEnded(t) =>
      LET r == ret[t]
      IN  /\ r.fr.host # r.fr.db => sessions[r.fr.onSess].st = "closed"
          /\ r.fr.host = r.fr.db =>
               (sessions[r.fr.onSess].st = "open" /\ r.dbSession = r.fr.onSess)

\* C19 witness: a stream hosted on a sibling has failed
C19_Witness ==
  \E t \in Tasks :
    /\ StreamEnded(t) /\ ret[t].st = "err"
    /\ ret[t].fr.host # ret[t].fr.db
    /\ sessions[ret[t].fr.onSess].st = "closed"

\* the bookmark captures on the host of the stream with frame f before it
\* was started
HostCap0(f) == IF f.host = f.db THEN f.cap0 ELSE 0

\* C20 as claimed: when a stream has terminated, by completion or by error,
\* the bookmarks have been captured on the hosting context, and the
\* caller's dbMarks and dbSummary are those of a sibling host
C20_TerminationCaptures ==
  \A t \in Tasks :
    StreamEnded(t) =>
      LET f == ret[t].fr
      IN  /\ ctx[f.host].ncap = HostCap0(f) + 1
          /\ ctx[f.host].dbMarks = sessions[f.onSess].marks
          /\ f.host # f.db =>
               /\ ctx[f.db].dbMarks = ctx[f.host].dbMarks
               /\ ctx[f.db].dbSummary = ctx[f.host].dbSummary

\* C20 amended: when a stream has completed, the bookmarks have been
\* captured on the hosting context and the summary stored there, and the
\* caller's dbMarks and dbSummary are those of a sibling host; when it has
\* failed, nothing has been captured and a sibling host has no summary
C20_CompletionCaptures ==
  \A t \in Tasks :
    StreamEnded(t) =>
      LET f == ret[t].fr
      IN  /\ ret[t].st = "ok" =>
               /\ ctx[f.host].ncap = HostCap0(f) + 1
               /\ ctx[f.host].dbMarks = sessions[f.onSess].marks
               /\ ctx[f.host].dbSummary = f.id
               /\ f.host # f.db =>
                    /\ ctx[f.db].dbMarks = ctx[f.host].dbMarks
                    /\ ctx[f.db].dbSummary = ctx[f.host].dbSummary
          /\ ret[t].st = "err" =>
               /\ ctx[f.host].ncap = HostCap0(f)
               /\ ctx[f.db].ncap = f.cap0
               /\ f.host # f.db => ctx[f.host].dbSummary = Null

\* C20 witness: a stream hosted on a sibling has completed and the caller
\* holds the sibling's bookmarks and summary
C20_Witness ==
  \E t \in Tasks :
    /\ StreamEnded(t) /\ ret[t].st = "ok"
    /\ ret[t].fr.host # ret[t].fr.db
    /\ ctx[ret[t].fr.db].dbMarks = sessions[ret[t].fr.onSess].marks
    /\ ctx[ret[t].fr.db].dbMarks > NoMarks
    /\ ctx[ret[t].fr.db].dbSummary = ret[t].fr.id

\* the close call whose return ret[t] records
CloseEnded(t) == ret[t].fr.kind \in {"dbClose", "dbCloseSession"}

\* C21: when an operation of the layer reports completion, every close it
\* started has completed: the close of the sibling session of a stream that
\* has settled, and the close of the session of a dbCloseSession or dbClose
\* that has returned
C21_StartedWorkIsAwaited ==
  \A t \in Tasks :
    /\ (StreamEnded(t) /\ ret[t].fr.host # ret[t].fr.db) =>
         sessions[ret[t].fr.onSess].fin
    /\ (CloseEnded(t) /\ ret[t].fr.onSess # Null) =>
         sessions[ret[t].fr.onSess].fin

\* the contexts other than c that refer to driver d
Sharing(c, d) == {o \in 1..Len(ctx) : o # c /\ ctx[o].dbDriver = d}

\* C22 as claimed: when dbClose(ctx) has returned, the session of ctx is
\* closed, and the driver is closed only if ctx owns it: the driver of a
\* derived context that shares it is still open
C22_DbCloseOnlyOwnedDriver ==
  \A t \in Tasks :
    (ret[t].fr.kind = "dbClose" /\ ret[t].fr.drv # Null) =>
      LET f == ret[t].fr
      IN  /\ f.onSess # Null => sessions[f.onSess].st = "closed"
          /\ ctx[f.db].owns => drivers[f.drv] = "closed"
          /\ ~ctx[f.db].owns => drivers[f.drv] = "open"

\* C22 amended: when dbClose(ctx) has returned, the session of ctx is closed
\* and ctx refers to no session and no driver, and the driver ctx referred
\* to is closed whether ctx owns it or shares it; the contexts that share
\* it still refer to it
C22_DbCloseClosesDriver ==
  \A t \in Tasks :
    ret[t].fr.kind = "dbClose" =>
      LET f == ret[t].fr
      IN  /\ f.onSess # Null =>
               sessions[f.onSess].st = "closed" /\ sessions[f.onSess].fin
          /\ ret[t].dbSession = Null
          /\ ctx[f.db].dbDriver = Null
          /\ f.drv # Null => drivers[f.drv] = "closed"

\* C22 witness: dbClose on a derived context that shares its parent's driver
\* has returned, the driver is closed and the parent still refers to it
C22_Witness ==
  \E t \in Tasks :
    /\ ret[t].fr.kind = "dbClose" /\ ret[t].fr.drv # Null
    /\ ~ctx[ret[t].fr.db].owns
    /\ drivers[ret[t].fr.drv] = "closed"
    /\ ctx[ret[t].fr.db].parent \in Sharing(ret[t].fr.db, ret[t].fr.drv)

C24_DerivedStartsIdle ==
  /\ \A c \in 1..Len(ctx) :
       SessionsOf(c) = {} => (ctx[c].dbSession = Null /\ ctx[c].dbTxn = Null)
  /\ \A t \in Tasks :
       LET Own(f) == /\ f.path = "single" /\ f.txn = Null /\ f.onTxn = Null
                     /\ sessions[f.onSess].ctx = f.db
                     /\ f.onSess # ctx[ctx[f.db].parent].dbSession
           First(f) == /\ f.kind = "exec" /\ ~f.isFn /\ f.sess0 = Null
                       /\ f.onSess # Null \/ f.txn # Null \/ f.path # "none"
                       /\ ctx[f.db].parent # Null
       IN  /\ \A i \in ExecAt(t) : First(stack[t][i]) => Own(stack[t][i])
           /\ First(ret[t].fr) => Own(ret[t].fr)

\* C24 witness: a literal query has succeeded single-shot on a derived
\* context while its parent holds an active managed transaction
C24_Witness ==
  \E t \in Tasks :
    LET f == ret[t].fr
    IN  /\ f.kind = "exec" /\ ~f.isFn /\ f.sess0 = Null /\ f.path = "single"
        /\ ret[t].st = "ok"
        /\ ctx[f.db].parent # Null
        /\ ctx[ctx[f.db].parent].dbTxn # Null
        /\ txns[ctx[ctx[f.db].parent].dbTxn].st = "active"
        /\ sessions[f.onSess].ctx = f.db

\* C25: the session configuration of a derived context targets the database
\* its merged dbParms name, so that of an override that names another
\* database and not that of the parent
C25_OverrideDatabaseWins ==
  \A c \in 1..Len(ctx) :
    ctx[c].parent # Null => ctx[c].sp.database = ctx[c].dbParms.dbName

\* C29: a literal call that repeats the successful call just before it (the
\* same statement on the same context, nothing in between) is not refused
\* by the server because of the path it is sent on, so that it returns what
\* the first call returned
C29_RepeatedCallSameResult ==
  \A t \in Tasks :
    (ret[t].fr.kind = "exec" /\ ret[t].fr.rep) =>
      ret[t].fr.res # "conflict"


(***************************************************************************)
(* Result and summary normalization: dbResultsAsObjects, cleanupDbSummary. *)
(***************************************************************************)
MaxStat == 1

program == <<ctx, drivers, sessions, txns, stack, ret, ops, lim, bm>>

\* the names of the driver's query statistics
StatNames == {"nodesCreated", "propertiesSet"}

\* an object without entries
NoEntries == [n \in {} |-> 0]

\* a statistics value: the driver's QueryStatistics ("raw", m its _stats),
\* a plain mapping ("flat", m its entries), or null
NullStats == [kind |-> "null", m |-> NoEntries]

RawStats == {[kind |-> "raw", m |-> f] : f \in [StatNames -> 0..MaxStat]}

\* flatQueryStatistics: the entries of dbQueryStats?._stats ?? {} whose
\* number is positive
flatQueryStatistics(dbQueryStats) ==
  LET stats == IF dbQueryStats.kind = "raw" THEN dbQueryStats.m ELSE NoEntries
  IN  [kind |-> "flat",
       m    |-> [n \in {k \in DOMAIN stats : stats[k] > 0} |-> stats[n]]]

\* a summary without counters
NullSummary == [counters |-> NullStats, updateStatistics |-> NullStats]

\* cleanupDbSummary: both fields of the summary object are replaced
cleanupDbSummary(dbSummary) ==
  [dbSummary EXCEPT !.counters = flatQueryStatistics(@),
                    !.updateStatistics = flatQueryStatistics(@)]

\* the driver's records
RecordValues == {[keys |-> <<"n">>, fields |-> <<x>>] : x \in 0..MaxStat}

\* objectFromDbResultRecord without onlyFields: rec.toObject()
objectFromDbResultRecord(rec) ==
  [k \in {rec.keys[i] : i \in DOMAIN rec.keys} |->
     rec.fields[CHOOSE i \in DOMAIN rec.keys : rec.keys[i] = k]]

\* a value an executor returns: the driver's result object ("raw") or an
\* array of plain objects ("objs"), which has no records and no summary
RawResult(records, summary) ==
  [shape |-> "raw", records |-> records, summary |-> summary, items |-> <<>>]

Objects(items) ==
  [shape |-> "objs", records |-> <<>>, summary |-> NullSummary, items |-> items]

SeqsUpTo(S, n) == UNION {[1..k -> S] : k \in 0..n}

RawResults ==
  {RawResult(recs, [counters |-> c, updateStatistics |-> u]) :
     recs \in SeqsUpTo(RecordValues, MaxRecords), c \in RawStats, u \in RawStats}
  \cup
  {RawResult(recs, NullSummary) : recs \in SeqsUpTo(RecordValues, MaxRecords)}

\* mutant: nothing counts as converted
ConvertedNever(dbResults) == FALSE

\* dbResultsAsObjects, line 188: records == null or summary?.counters == null
Converted(dbResults) ==
  dbResults.shape # "raw" \/ dbResults.summary.counters.kind = "null"

\* dbResultsAsObjects(db, dbResults): out the value returned, arg the argument
\* afterwards (its summary object is changed in place) and dbSummary the new
\* db.dbSummary
dbResultsAsObjects(dbSummary, dbResults) ==
  IF Converted(dbResults)
  THEN [out |-> dbResults, arg |-> dbResults, dbSummary |-> dbSummary]
  ELSE LET s == cleanupDbSummary(dbResults.summary)
       IN  [out |-> Objects([i \in 1..Len(dbResults.records) |->
                               objectFromDbResultRecord(dbResults.records[i])]),
            arg |-> [dbResults EXCEPT !.summary = s],
            dbSummary |-> s]

\* a raw result the driver has returned: n counts the normalizations of its
\* summary and first is the summary after the first of them, alias says
\* that db.dbSummary is the summary object of raw, out is the value the last
\* executor call returned, inner the value the innermost call returned and
\* depth the enclosing executeCypher calls it has been returned through
InitNorm ==
  /\ NoProgram
  /\ \E raw \in RawResults :
       calc = [kind |-> "norm", raw |-> raw, dbSummary |-> NullSummary, alias |-> FALSE,
               out |-> raw, inner |-> raw, n |-> 0, first |-> NullSummary, depth |-> 0]

\* executeCypher: dbResultsAsObjects applied to the raw result
NormalizeRaw ==
  /\ UNCHANGED program
  /\ calc.n < MaxDepth
  /\ LET r == dbResultsAsObjects(calc.dbSummary, calc.raw)
         done == ~Converted(calc.raw)
     IN  calc' = [calc EXCEPT !.raw = r.arg, !.dbSummary = r.dbSummary,
                              !.alias = @ \/ done,
                              !.out = r.out, !.inner = r.out, !.depth = 0,
                              !.n = IF done THEN @ + 1 ELSE @,
                              !.first = IF done /\ calc.n = 0 THEN r.arg.summary ELSE @]

\* cleanupDbSummary applied to the summary of the raw result by caller code
CleanupSummary ==
  /\ UNCHANGED program
  /\ calc.n < MaxDepth
  /\ calc.raw.summary # NullSummary
  /\ LET s == cleanupDbSummary(calc.raw.summary)
     IN  calc' = [calc EXCEPT !.raw.summary = s,
                              !.dbSummary = IF calc.alias THEN s ELSE @,
                              !.n = @ + 1,
                              !.first = IF calc.n = 0 THEN s ELSE @]

\* an enclosing executeCypher, whose descriptor returned the value the call
\* inside it returned, applies dbResultsAsObjects to it
ReturnThrough ==
  /\ UNCHANGED program
  /\ calc.out.shape = "objs"
  /\ calc.depth < MaxDepth
  /\ LET r == dbResultsAsObjects(calc.dbSummary, calc.out)
     IN  calc' = [calc EXCEPT !.out = r.out, !.dbSummary = r.dbSummary, !.depth = @ + 1]

NextNorm == NormalizeRaw \/ CleanupSummary \/ ReturnThrough

SpecNorm == InitNorm /\ [][NextNorm]_vars

\* C26: the value an outer executeCypher returns is the normalized value the
\* nested executeCypher returned, at every depth, and passing it through
\* leaves db.dbSummary as it was
C26_NormalizedPassesThrough ==
  [][ (calc.kind = "norm" /\ calc'.depth > calc.depth) =>
        /\ calc'.out = calc.inner /\ calc'.inner = calc.inner
        /\ calc'.out.shape = "objs"
        /\ calc'.dbSummary = calc.dbSummary ]_vars

\* C26 witness: a sequence of plain objects has been returned unchanged
\* through two enclosing executeCypher calls
C26_Witness ==
  /\ calc.kind = "norm" /\ calc.depth >= 2
  /\ calc.out = calc.inner /\ calc.out.shape = "objs" /\ Len(calc.out.items) > 0

\* C27: however often the summary of a raw result is normalized, by
\* cleanupDbSummary or by dbResultsAsObjects, its counters and
\* updateStatistics are those the first normalization produced
C27_SummaryNormalizationIdempotent ==
  (calc.kind = "norm" /\ calc.n >= 1) =>
    /\ calc.raw.summary.counters = calc.first.counters
    /\ calc.raw.summary.updateStatistics = calc.first.updateStatistics


(***************************************************************************)
(* setBigintHelperJson: BigInt.prototype.toJSON.                           *)
(***************************************************************************)
MaxDelta == 8

\* a bigint is a sign and a magnitude hi * Limb + lo in two limbs of 27 bits
Limb == 2^27

BigIntOf(neg, hi, lo) == [neg |-> neg /\ (hi > 0 \/ lo > 0), hi |-> hi, lo |-> lo]

\* 2^53 + d for a small d
NearTwo53(neg, d) ==
  IF d < 0 THEN BigIntOf(neg, 2^26 - 1, Limb + d) ELSE BigIntOf(neg, 2^26, d)

\* Number.MAX_SAFE_INTEGER and Number.MIN_SAFE_INTEGER as bigints
MaxSafeInt_bigint == NearTwo53(FALSE, -1)

MinSafeInt_bigint == NearTwo53(TRUE, -1)

MagLess(a, b) == a.hi < b.hi \/ (a.hi = b.hi /\ a.lo < b.lo)

\* a < b on bigints
Less(a, b) ==
  IF a.neg /\ ~b.neg THEN TRUE
  ELSE IF ~a.neg /\ b.neg THEN FALSE
  ELSE IF a.neg THEN MagLess(b, a) ELSE MagLess(a, b)

\* Number(v): the nearest double, ties to the even significand; exact up
\* to 2^53, and between 2^53 and 2^54 the doubles are the even integers
NumberOf(v) ==
  IF v.hi < 2^26 \/ v.lo % 2 = 0 THEN v
  ELSE LET lo == IF (v.lo + 1) % 4 = 0 THEN v.lo + 1 ELSE v.lo - 1
       IN  IF lo = Limb THEN BigIntOf(v.neg, v.hi + 1, 0) ELSE BigIntOf(v.neg, v.hi, lo)

\* the decimal digits of the magnitude hi * Limb + lo
RECURSIVE Digits(_, _)
Digits(hi, lo) ==
  IF hi = 0 /\ lo < 10 THEN <<lo>>
  ELSE LET cur == (hi % 10) * Limb + lo
       IN  Append(Digits(hi \div 10, cur \div 10), cur % 10)

\* the magnitude that a string of decimal digits denotes, as [hi, lo]
RECURSIVE FromDigits(_)
FromDigits(ds) ==
  IF ds = <<>> THEN [hi |-> 0, lo |-> 0]
  ELSE LET m == FromDigits(SubSeq(ds, 1, Len(ds) - 1))
           t == m.lo * 10 + ds[Len(ds)]
       IN  [hi |-> m.hi * 10 + t \div Limb, lo |-> t % Limb]

\* mutant: every bigint is emitted as a number
OutOfRangeNever(v) == FALSE

\* toJSON, line 318: this > MaxSafeInt_bigint || this < MinSafeInt_bigint
OutOfRange(v) == Less(MaxSafeInt_bigint, v) \/ Less(v, MinSafeInt_bigint)

\* JSON.stringify of a bigint through toJSON: this.toString() is emitted as
\* a string of its digits, Number(this) as a numeric literal
toJSON(v) ==
  IF OutOfRange(v)
  THEN [type |-> "string", neg |-> v.neg, digits |-> Digits(v.hi, v.lo)]
  ELSE LET n == NumberOf(v)
       IN  [type |-> "number", neg |-> n.neg, digits |-> Digits(n.hi, n.lo)]

\* the consumer's BigInt(field) on the parsed JSON: a numeric literal is
\* parsed to a double first
ReadBigInt(j) ==
  LET m == FromDigits(j.digits)
      v == BigIntOf(j.neg, m.hi, m.lo)
  IN  IF j.type = "number" THEN NumberOf(v) ELSE v

\* the integers serialized: small ones, 42, and those around 2^53
JsonInputs ==
  {BigIntOf(neg, 0, lo) : neg \in BOOLEAN, lo \in (0..MaxDelta) \cup {42}}
  \cup
  {NearTwo53(neg, d) : neg \in BOOLEAN, d \in (0 - MaxDelta)..MaxDelta}

NoJson == [type |-> "none", neg |-> FALSE, digits |-> <<>>]

InitJson ==
  /\ NoProgram
  /\ \E v \in JsonInputs :
       calc = [kind |-> "json", stage |-> "value", v |-> v, out |-> NoJson,
               back |-> BigIntOf(FALSE, 0, 0)]

\* JSON.stringify(v)
Serialize ==
  /\ UNCHANGED program
  /\ calc.stage = "value"
  /\ calc' = [calc EXCEPT !.stage = "json", !.out = toJSON(calc.v)]

\* BigInt(JSON.parse(text))
ReadBack ==
  /\ UNCHANGED program
  /\ calc.stage = "json"
  /\ calc' = [calc EXCEPT !.stage = "read", !.back = ReadBigInt(calc.out)]

NextJson == Serialize \/ ReadBack

SpecJson == InitJson /\ [][NextJson]_vars

\* C28: an integer of magnitude at most 2^53 - 1 is emitted as the numeric
\* literal of its digits and any other as the string of its digits, and
\* reading the emitted value back yields the integer; 2^53 + 1 is emitted
\* as the string "9007199254740993" and 42 as the number 42
C28_BigintJsonRoundTrip ==
  (calc.kind = "json" /\ calc.stage # "value") =>
    LET v == calc.v
        m == FromDigits(calc.out.digits)
    IN  /\ calc.out.type = IF v.hi < 2^26 THEN "number" ELSE "string"
        /\ calc.out.neg = v.neg /\ m.hi = v.hi /\ m.lo = v.lo
        /\ \A i \in DOMAIN calc.out.digits : calc.out.digits[i] \in 0..9
        /\ Len(calc.out.digits) > 1 => calc.out.digits[1] # 0
        /\ v = NearTwo53(FALSE, 1) =>
             calc.out.digits = <<9, 0, 0, 7, 1, 9, 9, 2, 5, 4, 7, 4, 0, 9, 9, 3>>
        /\ v = BigIntOf(FALSE, 0, 42) => calc.out.digits = <<4, 2>>
        /\ calc.stage = "read" => calc.back = v

\* C28 witness: 2^53 has been emitted as a string and read back
C28_Witness ==
  /\ calc.kind = "json" /\ calc.stage = "read" /\ calc.back = calc.v
  /\ calc.v = NearTwo53(FALSE, 0) /\ calc.out.type = "string"
  /\ calc.out.digits = <<9, 0, 0, 7, 1, 9, 9, 2, 5, 4, 7, 4, 0, 9, 9, 2>>


(***************************************************************************)
(* main: the command line client.                                          *)
(***************************************************************************)
\* a string is the sequence of its characters; an environment variable is
\* set to a string or not set
Unset == [set |-> FALSE, s |-> <<>>]

EnvValue(s) == [set |-> TRUE, s |-> s]

\* String(valOrStr) as String.prototype.includes coerces its argument
AsString(v) == IF v.set THEN v.s ELSE <<"u", "n", "d", "e", "f", "i", "n", "e", "d">>

\* hay.includes(needle)
Includes(hay, needle) ==
  \E i \in 0..(Len(hay) - Len(needle)) : SubSeq(hay, i + 1, i + Len(needle)) = needle

\* isValueTrue on the value of an environment variable
isValueTrue(valOrStr) == Includes(<<"1", "y", "Y", "t", "T", "+">>, AsString(valOrStr))

\* getDbParmsFrom: args says which of --allowwrite, --readonly and
\* --ignoremarks are given, env is NEO4J_ALLOWWRITE; dbUrl gets its default
getDbParmsFrom(args, env) ==
  LET allowwrite == IF args.allowwrite THEN TRUE ELSE isValueTrue(env)
  IN  [NoParms EXCEPT !.dbUrl = "bolt",
                      !.allowwrite = IF allowwrite /\ ~args.readonly THEN "T" ELSE "F",
                      !.readonly = IF args.readonly THEN "T" ELSE "U",
                      !.ignoremarks = IF args.ignoremarks THEN "T" ELSE "U"]

CliArgs == [allowwrite : BOOLEAN, readonly : BOOLEAN, ignoremarks : {FALSE}]

CliEnv == {Unset, EnvValue(<<>>), EnvValue(<<"1">>), EnvValue(<<"0">>),
           EnvValue(<<"t", "r", "u", "e">>)}

\* main after newDbContext(dbParms): the context is made from the command
\* line, the query is about to be executed
InitMain ==
  /\ \E args \in CliArgs, env \in CliEnv :
       /\ calc = [kind |-> "main", args |-> args, env |-> env]
       /\ ctx = <<newDbContext(PlainParms(getDbParmsFrom(args, env)), NoObject, 1).db>>
  /\ drivers = <<"open">>
  /\ sessions = <<>>
  /\ txns = <<>>
  /\ stack = [t \in Tasks |-> IF t = 1 THEN <<CodeFrame(1)>> ELSE <<>>]
  /\ ret = [t \in Tasks |-> NoRet]
  /\ ops = 0
  /\ lim = MaxOps
  /\ bm = 0

\* main: executeCypher(db, query, queryParms) with a literal or a predefined
\* function, whose body calls the executor again, and finally dbClose(db)
StepMain(t) ==
  \/ \E isFn \in BOOLEAN : ExecuteCypher(t, 1, isFn, "plain")
  \/ \E ok \in BOOLEAN : RunDone(t, ok)
  \/ \E ok \in BOOLEAN : TxnBegin(t, ok)
  \/ \E ok \in BOOLEAN : TxnRunDone(t, ok)
  \/ \E ok \in BOOLEAN : BodyReturn(t, ok)
  \/ \E committed \in BOOLEAN : TxnFinish(t, committed)
  \/ Catch(t)
  \/ DbCloseSession(t, 1, TRUE)
  \/ CloseSessionDone(t)
  \/ CloseDriverDone(t)

NextMain == \E t \in Tasks : StepMain(t)

SpecMain == InitMain /\ [][NextMain]_vars

\* C30: when main is run without --allowwrite and --readonly and
\* NEO4J_ALLOWWRITE is not set, the default access mode of its context is
\* READ, and every session it opens and every managed transaction it begins
\* is a read one
C30_DefaultIsReadOnly ==
  (calc.kind = "main" /\ ~calc.args.allowwrite /\ ~calc.args.readonly /\ ~calc.env.set) =>
    /\ ctx[1].sp.mode = "READ"
    /\ \A s \in 1..Len(sessions) : sessions[s].mode = "READ"
    /\ \A k \in 1..Len(txns) : txns[k].mode = "READ"

\* C31: a managed transaction was begun with executeRead exactly when the
\* defaultAccessMode of its context is READ, and with executeWrite when it
\* is WRITE or unset
C31_WrapperFollowsAccessMode ==
  \A k \in 1..Len(txns) :
    /\ txns[k].mode \in {"READ", "WRITE"}
    /\ txns[k].mode = "READ" <=> ctx[txns[k].ctx].sp.mode = "READ"

\* C31 witness: main run with --readonly has begun a transaction with
\* executeRead on its context of mode READ
C31_Witness ==
  /\ calc.kind = "main" /\ calc.args.readonly
  /\ \E k \in 1..Len(txns) :
       /\ txns[k].mode = "READ" /\ txns[k].st = "active"
       /\ ctx[txns[k].ctx].sp.mode = "READ"

\* C32: when a top-level executeCypher has returned or thrown, db.dbTxn is
\* null and db.dbSession is the session the call used, still open
C32_SessionOpenAfterCall ==
  \A t \in Tasks :
    LET r == ret[t]
        f == r.fr
    IN  (f.kind = "exec" /\ f.txn0 = Null) =>
          /\ r.dbTxn = Null
          /\ r.dbSession # Null
          /\ sessions[r.dbSession].st = "open"
          /\ f.sess0 # Null => r.dbSession = f.sess0
          /\ f.path = "single" => r.dbSession = f.onSess
          /\ f.path = "managed" => r.dbSession = txns[f.txn].sess

\* C34: a context that holds a transaction handle holds the session the
\* transaction was begun on, and that session is open
C34_TxnImpliesLiveSession ==
  \A c \in 1..Len(ctx) :
    ctx[c].dbTxn # Null =>
      /\ ctx[c].dbSession # Null
      /\ ctx[c].dbSession = txns[ctx[c].dbTxn].sess
      /\ sessions[ctx[c].dbSession].st = "open"


\* the stream siblings of context c that capture in this step: their
\* onCompleted copies back to c
CopyingBack(c) ==
  {h \in 1..Len(ctx) : /\ ctx[h].via = "sibling" /\ ctx[h].parent = c
                       /\ ctx'[h].ncap # ctx[h].ncap}

\* C33: dbMarks of a context is the value its last writer stored: a capture
\* stores the bookmarks of the context's session, a copy-back those of the
\* sibling, dbForgetBookmarks none, and nothing else changes it; when a
\* managed transaction finishes, dbMarks is the bookmarks of the caller's
\* own session whatever a sibling had copied back
C33_MarksLastWriterWins ==
  [][\A c \in 1..Len(ctx) :
       LET db == ctx'[c]
           own == IF db.dbSession = Null THEN Nullish ELSE sessions'[db.dbSession].marks
       IN  /\ db.nfg # ctx[c].nfg => db.dbMarks = Nullish
           /\ db.ncap # ctx[c].ncap => db.dbMarks = own
           /\ CopyingBack(c) # {} => \E h \in CopyingBack(c) : db.dbMarks = ctx'[h].dbMarks
           /\ (db.nfg = ctx[c].nfg /\ db.ncap = ctx[c].ncap /\ CopyingBack(c) = {}) =>
                db.dbMarks = ctx[c].dbMarks
           /\ (ctx[c].dbTxn # Null /\ db.dbTxn = Null) => db.dbMarks = own]_vars

\* C33 witness: a managed transaction has finished on a context to which a
\* stream sibling had copied back newer bookmarks than its own session's,
\* and the context holds its own session's bookmarks
C33_Witness ==
  \E t \in Tasks : \E h \in 1..Len(ctx) :
    LET f == ret[t].fr
    IN  /\ f.kind = "exec" /\ f.path = "managed"
        /\ ctx[h].via = "sibling" /\ ctx[h].parent = f.db /\ ctx[h].ncap > 0
        /\ ctx[f.db].dbTxn = Null /\ ctx[f.db].dbSession # Null
        /\ ctx[f.db].dbMarks = sessions[ctx[f.db].dbSession].marks
        /\ ctx[h].dbMarks > ctx[f.db].dbMarks

\* C35: with several tasks on one context, while the body of a managed unit
\* of work of a task is running db.dbTxn is the handle of that unit, and a
\* statement a task runs on a transaction handle runs on one the task began
C35_TxnHandleIsOwn ==
  \A t \in Tasks : \A i \in ExecAt(t) :
    LET f == stack[t][i]
    IN  /\ (f.path = "managed" /\ f.pc = "work") => ctx[f.db].dbTxn = f.txn
        /\ f.onTxn # Null => txns[f.onTxn].task = t

\* C36: under every interleaving of executeCypher and
\* executeAndStreamCypherResults calls of several tasks on one context that
\* started Idle, one session and no more has been opened for the context
\* once a call has been made, and it is the one the context holds
C36_OneSessionOpened ==
  /\ Cardinality(SessionsOf(1)) <= 1
  /\ ops > 0 => SessionsOf(1) = {ctx[1].dbSession}

\* C36 witness: two tasks are inside calls on the context at once, one in
\* executeCypher and one in a stream, both on the one session opened
C36_Witness ==
  \E t, u \in Tasks :
    /\ t # u /\ stack[t] # <<>> /\ stack[u] # <<>>
    /\ Top(t).kind = "exec" /\ Top(t).db = 1 /\ Top(t).sess0 = Null
    /\ Top(u).kind = "stream" /\ Top(u).host = 1 /\ Top(u).sess0 # Null
    /\ Top(u).onSess = ctx[1].dbSession
    /\ SessionsOf(1) = {ctx[1].dbSession}

\* the session opened for context c before session s, Null when s is the first
Previous(c, s) ==
  LET S == {u \in SessionsOf(c) : u < s}
  IN  IF S = {} THEN Null ELSE Latest(S)

\* C37: the first session opened for a context after a dbForgetBookmarks on
\* it is created with no bookmarks, whatever completed in between on the
\* session that was open when the bookmarks were forgotten
C37_ForgetStartsNewChain ==
  \A s \in 1..Len(sessions) :
    LET c == sessions[s].ctx
        p == Previous(c, s)
        before == IF p = Null THEN 0 ELSE sessions[p].gen
    IN  sessions[s].gen > before => HoldsNoMarks(sessions[s].init)

\* C38: the step in which a stream hosted on a sibling context completes
\* changes dbMarks and dbSummary of the caller's context, to the sibling's,
\* and no other field of it: dbSessionParms, dbSession, dbTxn, dbDriver and
\* dbParms are as they were
C38_CopyBackOnlyMarksAndSummary ==
  [][\A c \in 1..Len(ctx) : \A h \in CopyingBack(c) :
       /\ ctx'[c] = [ctx[c] EXCEPT !.dbMarks = ctx'[h].dbMarks,
                                   !.dbSummary = ctx'[h].dbSummary]
       /\ ctx'[c].sp = ctx[c].sp /\ ctx'[c].dbSession = ctx[c].dbSession
       /\ ctx'[c].dbTxn = ctx[c].dbTxn /\ ctx'[c].dbDriver = ctx[c].dbDriver
       /\ ctx'[c].dbParms = ctx[c].dbParms]_vars

\* C38 witness: a stream hosted on a sibling has completed inside a managed
\* transaction; the caller holds the sibling's dbMarks and summary, still
\* holds its transaction, and stages other bookmarks than the sibling
C38_Witness ==
  \E t \in Tasks :
    LET f == ret[t].fr
    IN  /\ StreamEnded(t) /\ f.res = "ok" /\ f.host # f.db
        /\ ctx[f.db].dbMarks = ctx[f.host].dbMarks /\ ctx[f.db].dbMarks > NoMarks
        /\ ctx[f.db].dbSummary = ctx[f.host].dbSummary
        /\ ctx[f.db].dbTxn = f.txn0 /\ ctx[f.db].dbSession = f.sess0
        /\ ctx[f.host].sp.bookmarks = ctx[f.host].dbMarks
        /\ ctx[f.db].sp.bookmarks # ctx[f.host].sp.bookmarks

\* this step belongs to an executeCypher or dbCloseSession call of task t on
\* context c: the call starts, goes on after an await, or returns
CallStepOn(t, c) ==
  LET K == {"exec", "dbCloseSession"}
  IN  \/ /\ Len(stack'[t]) > Len(stack[t])
         /\ stack'[t][Len(stack[t]) + 1].kind \in K
         /\ stack'[t][Len(stack[t]) + 1].db = c
      \/ /\ stack[t] # <<>> /\ stack'[t] # stack[t]
         /\ Top(t).kind \in K /\ Top(t).db = c
      \/ /\ ret'[t] # ret[t]
         /\ ret'[t].fr.kind \in K /\ ret'[t].fr.db = c

\* this step is an operation on context c: a step of an executeCypher or
\* dbCloseSession call on it, a bookmark capture or a dbForgetBookmarks
OperatesOn(c) ==
  \/ \E t \in Tasks : CallStepOn(t, c)
  \/ ctx'[c].ncap # ctx[c].ncap
  \/ ctx'[c].nfg # ctx[c].nfg

\* C39: executeCypher, a bookmark capture, dbForgetBookmarks and
\* dbCloseSession on a context the caller derived leave dbMarks,
\* dbSessionParms, dbSession, dbTxn and dbSummary of its parent unchanged
C39_ChildLeavesParent ==
  [][\A c \in 1..Len(ctx) :
       LET p == ctx[c].parent
       IN  (p # Null /\ ctx[c].via # "sibling" /\ OperatesOn(c)) =>
             /\ ctx'[p].dbMarks = ctx[p].dbMarks
             /\ ctx'[p].sp = ctx[p].sp
             /\ ctx'[p].dbSession = ctx[p].dbSession
             /\ ctx'[p].dbTxn = ctx[p].dbTxn
             /\ ctx'[p].dbSummary = ctx[p].dbSummary]_vars

\* C39 witness: a derived context has run a statement, captured its
\* bookmarks and had its session closed, and holds bookmarks, staged
\* bookmarks and a summary that its parent does not hold
C39_Witness ==
  \E t \in Tasks : \E c \in 1..Len(ctx) :
    LET p == ctx[c].parent
    IN  /\ p # Null /\ ctx[c].via # "sibling"
        /\ ret[t].fr.kind = "dbCloseSession" /\ ret[t].fr.db = c
        /\ ctx[c].ncap > 0 /\ ctx[c].dbMarks > NoMarks /\ ctx[c].dbSession = Null
        /\ ctx[p].dbMarks # ctx[c].dbMarks
        /\ ctx[p].sp.bookmarks # ctx[c].sp.bookmarks
        /\ ctx[p].dbSummary # ctx[c].dbSummary

=============================================================================
